---- MODULE Spec2Model ----
(***************************************************************************)
(* Drift detection of katungi/aws-terror: the comparison engine of         *)
(* package drift (DetectDrift, getNestedValue, compareValues,              *)
(* normalizeValue, compareMaps, compareSlices), the drift command of       *)
(* package cmd (flag parsing, startup checks, the worker pool and the      *)
(* collector) and the mapping of an EC2 instance's block devices.          *)
(*                                                                         *)
(* A Go value of static type `any` is a tuple <<dynamic type, payload>>;   *)
(* the nil interface is <<"nil">>.  A Go string is the sequence of its     *)
(* characters, so that strings.Split can be computed; a run of characters  *)
(* without a dot may be written as one element ("volume_id").  Instance    *)
(* identifiers and file paths, which the code only compares and passes on, *)
(* are TLA+ strings.  A Go map is a function whose domain is its key set.  *)
(* Numbers are integers small enough for float64 to hold them exactly.     *)
(***************************************************************************)
EXTENDS Integers, Sequences, FiniteSets, TLC

VARIABLES
    v1, v2,              \* the two arguments of a compareValues call
    cmpPc,               \* "call" before the call, "done" after it
    cmpResult,           \* what compareValues returned
    awsConfig, tfConfig, \* the two trees handed to DetectDrift
    attributesToCheck,   \* the checklist handed to DetectDrift
    detPc,               \* "call" before DetectDrift, "done" after it
    drifts,              \* the map DetectDrift returned
    detErr,              \* the error DetectDrift returned
    awsAfter, tfAfter,   \* the two trees as the caller finds them afterwards
    attrsAfter,          \* the checklist as the caller finds it afterwards
    nestData, nestPath,  \* the two arguments of a getNestedValue call
    nestPc,              \* "call" before getNestedValue, "done" after it
    nestResult,          \* the pair <<value, found>> getNestedValue returned
    instanceIDs,         \* the identifiers the --instances flag holds
    maxConcurrency,      \* the capacity of the workerPool channel
    runPc,               \* where the Run function is: "dispatch", "collect", "fatal", "success"
    dispatchIdx,         \* the index of the identifier the dispatch loop is at
    workerPool,          \* how many tokens the workerPool channel holds
    wPc,                 \* where each worker goroutine is
    resultsChan,         \* the results sent and not yet received
    received,            \* the results the collector has received, in order
    hasErrors,           \* the collector's flag
    cancelled,           \* whether the command's context is cancelled
    argInstances,        \* the --instances flag of the command line, or NotGiven
    argState, argConfig, \* the --state and --config flags ("" when not given)
    argSimulate,         \* the --simulate flag
    argTarget,           \* the --target-state flag ("" when not given)
    clientOk,            \* whether aws.NewClient can load a configuration
    instanceID,          \* the package variable instanceID
    tfStatePath,         \* the package variable tfStatePath
    tfConfigPath,        \* the package variable tfConfigPath
    startPc,             \* "args", "run", then how the startup of Run ended
    instance,            \* the types.Instance handed to mapInstanceToConfig
    volumeLookup,        \* what DescribeVolumes answers for each volume id
    mapPc,               \* "call" before mapInstanceToConfig, "done" after it
    mapConfig,           \* the tree mapInstanceToConfig returned
    mapErr,              \* the error mapInstanceToConfig returned
    cData,               \* Cache.data: key -> [Value, Expiration]
    cTtl,                \* Cache.ttl
    clock,               \* what time.Now() returns
    readers, writers,    \* the goroutines holding Cache.mutex for reading, for writing
    gPc,                 \* where each goroutine is in its cache call ("idle" between calls)
    gOp,                 \* the call each goroutine is in: [op, key, value]
    gNow,                \* the time.Now() value each goroutine's Get compared with
    gResult,             \* what each goroutine's last Get returned: <<value, found>>
    gCalls,              \* how many calls each goroutine has made
    settled,             \* history: per key, the entry of a completed Set that no
                         \* Set of the key, Delete of the key, Clear or Cleanup ran after
    psFile,              \* what opening and decoding the state file gives ParseStateFile
    psPath,              \* the filepath argument of ParseStateFile
    psId,                \* the instanceID argument of ParseStateFile
    psPc,                \* "call" before ParseStateFile, "done" after it
    psResult,            \* the map ParseStateFile returned
    psErr,                \* the error ParseStateFile returned
    fmtDrifts,           \* the drift records handed to FormatDriftResults
    fmtId,               \* the instanceID argument of FormatDriftResults
    fmtFormat,           \* the format argument of FormatDriftResults
    fmtPc,               \* which of two calls with these arguments is next: "first", "second", "done"
    fmtOut1,             \* what the first call returned, as a sequence of lines
    fmtOut2,             \* what the second call returned
    strRec,              \* the DriftDetail whose String method is called
    strPc,               \* "call" before DriftDetail.String, "done" after it
    strOut,               \* what DriftDetail.String returned, as a sequence of lines
    fCtx,                \* the command's context: "live" or "cancelled"
    fPc,                 \* where GetEC2InstanceConfig is
    fElapsed,            \* time since the retries began, in units of the budget
    fResp,               \* what the last DescribeInstances answered
    fCalls,              \* the API calls issued so far, in order
    fVolIdx,             \* position of the loop over the block device mappings
    fLookup,             \* what DescribeVolumes answered, by volume id
    fConfig,             \* the tree GetEC2InstanceConfig returns
    fErr                 \* the error GetEC2InstanceConfig returns

vars == <<v1, v2, cmpPc, cmpResult, awsConfig, tfConfig, attributesToCheck, detPc, drifts,
          detErr, awsAfter, tfAfter, attrsAfter, nestData, nestPath, nestPc, nestResult,
          instanceIDs, maxConcurrency, runPc, dispatchIdx, workerPool, wPc, resultsChan,
          received, hasErrors, cancelled,
          argInstances, argState, argConfig, argSimulate, argTarget, clientOk, instanceID,
          tfStatePath, tfConfigPath, startPc,
          instance, volumeLookup, mapPc, mapConfig, mapErr,
          cData, cTtl, clock, readers, writers, gPc, gOp, gNow, gResult, gCalls, settled,
          psFile, psPath, psId, psPc, psResult, psErr,
          fmtDrifts, fmtId, fmtFormat, fmtPc, fmtOut1, fmtOut2, strRec, strPc, strOut,
          fCtx, fPc, fElapsed, fResp, fCalls, fVolIdx, fLookup, fConfig, fErr>>

cmpVars == <<v1, v2, cmpPc, cmpResult>>
detVars == <<awsConfig, tfConfig, attributesToCheck, detPc, drifts, detErr,
             awsAfter, tfAfter, attrsAfter>>
nestVars == <<nestData, nestPath, nestPc, nestResult>>
poolVars == <<instanceIDs, maxConcurrency, runPc, dispatchIdx, workerPool, wPc, resultsChan,
              received, hasErrors, cancelled>>
startVars == <<argInstances, argState, argConfig, argSimulate, argTarget, clientOk, instanceID,
               tfStatePath, tfConfigPath, startPc>>
mapVars == <<instance, volumeLookup, mapPc, mapConfig, mapErr>>
cacheVars == <<cData, cTtl, clock, readers, writers, gPc, gOp, gNow, gResult, gCalls, settled>>
\* the variables of the operations modelled after the drift command
parseVars == <<psFile, psPath, psId, psPc, psResult, psErr>>
fmtVars == <<fmtDrifts, fmtId, fmtFormat, fmtPc, fmtOut1, fmtOut2, strRec, strPc, strOut>>
fetchVars == <<fCtx, fPc, fElapsed, fResp, fCalls, fVolIdx, fLookup, fConfig, fErr>>
laterVars == <<cacheVars, parseVars, fmtVars, fetchVars>>

----------------------------------------------------------------------------
(* Bounds of the model *)

\* longest list ([]any, []string) among the compared values
MaxLen == 2
\* longest checklist handed to DetectDrift
MaxChecklist == 2
\* the longest identifier list of a drift run
MaxIds == 3
\* the largest concurrency limit of a drift run
MaxConcurrency == 2
\* the most block-device mappings of an instance
MaxDevices == 2
\* the most calls one goroutine makes on the cache
MaxCalls == 2
\* the latest time the clock reaches
MaxClock == 2
\* the longest time-to-live of a cache
MaxTtl == 1
\* the most resources of a state file and the most instances of a resource
MaxResources == 2
MaxInstances == 2
\* the retry budget of GetEC2InstanceConfig (MaxElapsedTime), in time units
MaxElapsed == 2
\* the longest a failed attempt and the wait after it take, in time units
MaxInterval == 2

----------------------------------------------------------------------------
(* Go values *)

Nil == <<"nil">>
String(s) == <<"string", s>>
Bool(b) == <<"bool", b>>
Float64(n) == <<"float64", n>>
Integer(t, n) == <<t, n>>
SliceAny(s) == <<"[]any", s>>
SliceString(s) == <<"[]string", s>>
MapAny(m) == <<"map[string]any", m>>
MapString(m) == <<"map[string]string", m>>

TypeOf(v) == v[1]
Payload(v) == v[2]

\* the integer types of Go
IntTypes == {"int", "int8", "int16", "int32", "int64",
             "uint", "uint8", "uint16", "uint32", "uint64"}

\* the integer types normalizeValue has a case for
WidenedTypes == {"int", "int32", "int64", "uint", "uint32", "uint64"}

----------------------------------------------------------------------------
(* package drift: the equality engine *)

RECURSIVE compareValues(_, _)

\* normalizeValue that also reads a string of digits as a number
normalizeValue_ParsesDigits(v) ==
    CASE TypeOf(v) \in WidenedTypes -> Float64(Payload(v))
      [] TypeOf(v) = "string" /\ Payload(v) = <<"8">> -> Float64(8)
      [] TypeOf(v) = "map[string]string" ->
            MapAny([k \in DOMAIN Payload(v) |-> String(Payload(v)[k])])
      [] TypeOf(v) = "[]string" ->
            SliceAny([i \in 1..Len(Payload(v)) |-> String(Payload(v)[i])])
      [] OTHER -> v

\* normalizeValue: widens the integer types it names to float64, and the
\* string-valued map and slice to the generic map and slice
normalizeValue(v) ==
    CASE TypeOf(v) \in WidenedTypes -> Float64(Payload(v))
      [] TypeOf(v) = "map[string]string" ->
            MapAny([k \in DOMAIN Payload(v) |-> String(Payload(v)[k])])
      [] TypeOf(v) = "[]string" ->
            SliceAny([i \in 1..Len(Payload(v)) |-> String(Payload(v)[i])])
      [] OTHER -> v

\* reflect.DeepEqual of two values that are not both generic maps and not
\* both generic slices: the same dynamic type and the same value
DeepEqual(x, y) ==
    /\ TypeOf(x) = TypeOf(y)
    /\ (TypeOf(x) = "nil" \/ Payload(x) = Payload(y))

\* compareMaps without the comparison of the two lengths
compareMaps_NoLengthCheck(m1, m2) ==
    \A k \in DOMAIN m1 : k \in DOMAIN m2 /\ compareValues(m1[k], m2[k])

\* compareMaps: the same number of keys, every key of m1 in m2, equal values
compareMaps(m1, m2) ==
    /\ Cardinality(DOMAIN m1) = Cardinality(DOMAIN m2)
    /\ \A k \in DOMAIN m1 : k \in DOMAIN m2 /\ compareValues(m1[k], m2[k])

\* the inner loop of compareSlices: the first index of s2Copy whose element
\* compares equal to x, 0 when there is none
firstMatch(x, s2Copy) ==
    LET hits == {i \in 1..Len(s2Copy) : compareValues(x, s2Copy[i])}
    IN  IF hits = {} THEN 0 ELSE CHOOSE i \in hits : \A j \in hits : i <= j

\* the outer loop of compareSlices from element k of s1 on: a matched
\* element of s2Copy is overwritten with nil
RECURSIVE matchFrom(_, _, _)
matchFrom(s1, k, s2Copy) ==
    IF k > Len(s1) THEN TRUE
    ELSE LET i == firstMatch(s1[k], s2Copy)
         IN  IF i = 0 THEN FALSE
             ELSE matchFrom(s1, k + 1, [s2Copy EXCEPT ![i] = Nil])

\* compareSlices: equal lengths, then greedy matching against a copy of s2
compareSlices(s1, s2) ==
    /\ Len(s1) = Len(s2)
    /\ matchFrom(s1, 1, s2)

\* compareValues without its first test: nil is unequal to everything
compareValues_NilNeverEqual(x, y) ==
    IF x = Nil \/ y = Nil THEN FALSE
    ELSE LET n1 == normalizeValue(x)
             n2 == normalizeValue(y)
         IN  IF TypeOf(n1) = "map[string]any" /\ TypeOf(n2) = "map[string]any"
             THEN compareMaps(Payload(n1), Payload(n2))
             ELSE IF TypeOf(n1) = "[]any" /\ TypeOf(n2) = "[]any"
             THEN compareSlices(Payload(n1), Payload(n2))
             ELSE DeepEqual(n1, n2)

compareValues(x, y) ==
    IF x = Nil /\ y = Nil THEN TRUE
    ELSE IF x = Nil \/ y = Nil THEN FALSE
    ELSE LET n1 == normalizeValue(x)
             n2 == normalizeValue(y)
         IN  IF TypeOf(n1) = "map[string]any" /\ TypeOf(n2) = "map[string]any"
             THEN compareMaps(Payload(n1), Payload(n2))
             ELSE IF TypeOf(n1) = "[]any" /\ TypeOf(n2) = "[]any"
             THEN compareSlices(Payload(n1), Payload(n2))
             ELSE DeepEqual(n1, n2)

----------------------------------------------------------------------------
(* package drift: path resolution and the drift classifier *)

\* strings.Split(path, "."): the substrings between the dots, in order;
\* a path without a dot is its own single part
RECURSIVE Split(_)
Split(path) ==
    LET dots == {i \in 1..Len(path) : path[i] = "."}
    IN  IF dots = {} THEN <<path>>
        ELSE LET d == CHOOSE i \in dots : \A j \in dots : i <= j
             IN  <<SubSeq(path, 1, d - 1)>> \o Split(SubSeq(path, d + 1, Len(path)))

\* descend that does not enter a string-valued map
RECURSIVE descend_GenericMapsOnly(_, _, _)
descend_GenericMapsOnly(current, parts, i) ==
    IF i > Len(parts) - 1
    THEN LET lastPart == parts[Len(parts)]
         IN  IF lastPart \in DOMAIN current
             THEN <<current[lastPart], TRUE>>
             ELSE <<Nil, FALSE>>
    ELSE IF parts[i] \notin DOMAIN current THEN <<Nil, FALSE>>
    ELSE LET val == current[parts[i]]
         IN  IF TypeOf(val) = "map[string]any"
             THEN descend_GenericMapsOnly(Payload(val), parts, i + 1)
             ELSE <<Nil, FALSE>>

\* the descent of getNestedValue through parts[i .. len-1], then the lookup
\* of the last part; current is a Go map; the result is <<value, found>>
RECURSIVE descend(_, _, _)
descend(current, parts, i) ==
    IF i > Len(parts) - 1
    THEN LET lastPart == parts[Len(parts)]
         IN  IF lastPart \in DOMAIN current
             THEN <<current[lastPart], TRUE>>
             ELSE <<Nil, FALSE>>
    ELSE IF parts[i] \notin DOMAIN current THEN <<Nil, FALSE>>
    ELSE LET val == current[parts[i]]
         IN  IF TypeOf(val) = "map[string]any"
             THEN descend(Payload(val), parts, i + 1)
             ELSE IF TypeOf(val) = "map[string]string"
             THEN descend([k \in DOMAIN Payload(val) |-> String(Payload(val)[k])],
                          parts, i + 1)
             ELSE <<Nil, FALSE>>

\* getNestedValue without its test of the empty path
getNestedValue_NoEmptyTest(data, path) == descend(data, Split(path), 1)

getNestedValue(data, path) ==
    IF path = <<>> THEN <<Nil, FALSE>>
    ELSE descend(data, Split(path), 1)

\* the DriftDetail struct; a field that is not set holds Go's zero value
DriftDetail(attr, inAWS, inTerraform, awsValue, tfValue) ==
    [Attribute |-> attr, InAWS |-> inAWS, InTerraform |-> inTerraform,
     AWSValue |-> awsValue, TerraformValue |-> tfValue]

\* checkAttribute with the test of compareValues inverted
checkAttribute_InvertedCompare(aws, tf, attr, acc) ==
    LET a == getNestedValue(aws, attr)
        t == getNestedValue(tf, attr)
    IN  IF ~a[2] /\ ~t[2] THEN acc
        ELSE IF ~a[2]
        THEN (attr :> DriftDetail(attr, FALSE, TRUE, Nil, t[1])) @@ acc
        ELSE IF ~t[2]
        THEN (attr :> DriftDetail(attr, TRUE, FALSE, a[1], Nil)) @@ acc
        ELSE IF compareValues(a[1], t[1])
        THEN (attr :> DriftDetail(attr, TRUE, TRUE, a[1], t[1])) @@ acc
        ELSE acc

\* checkAttribute storing the Terraform value on the AWS side of a record
\* for an attribute only Terraform has
checkAttribute_WrongSide(aws, tf, attr, acc) ==
    LET a == getNestedValue(aws, attr)
        t == getNestedValue(tf, attr)
    IN  IF ~a[2] /\ ~t[2] THEN acc
        ELSE IF ~a[2]
        THEN (attr :> DriftDetail(attr, FALSE, TRUE, t[1], Nil)) @@ acc
        ELSE IF ~t[2]
        THEN (attr :> DriftDetail(attr, TRUE, FALSE, a[1], Nil)) @@ acc
        ELSE IF ~compareValues(a[1], t[1])
        THEN (attr :> DriftDetail(attr, TRUE, TRUE, a[1], t[1])) @@ acc
        ELSE acc

\* one iteration of DetectDrift's loop: the map after attribute attr
checkAttribute(aws, tf, attr, acc) ==
    LET a == getNestedValue(aws, attr)
        t == getNestedValue(tf, attr)
        awsValue == a[1]
        awsExists == a[2]
        tfValue == t[1]
        tfExists == t[2]
    IN  IF ~awsExists /\ ~tfExists THEN acc
        ELSE IF ~awsExists
        THEN (attr :> DriftDetail(attr, FALSE, TRUE, Nil, tfValue)) @@ acc
        ELSE IF ~tfExists
        THEN (attr :> DriftDetail(attr, TRUE, FALSE, awsValue, Nil)) @@ acc
        ELSE IF ~compareValues(awsValue, tfValue)
        THEN (attr :> DriftDetail(attr, TRUE, TRUE, awsValue, tfValue)) @@ acc
        ELSE acc

\* DetectDrift's loop from element i of the checklist on
RECURSIVE detectFrom(_, _, _, _, _)
detectFrom(aws, tf, attrs, i, acc) ==
    IF i > Len(attrs) THEN acc
    ELSE detectFrom(aws, tf, attrs, i + 1, checkAttribute(aws, tf, attrs[i], acc))

\* DetectDrift falling back to a default checklist when handed an empty one
DetectDrift_DefaultChecklist(aws, tf, attrs) ==
    IF attrs = <<>> THEN detectFrom(aws, tf, <<<<"a">>, <<"b">>>>, 1, <<>>)
    ELSE detectFrom(aws, tf, attrs, 1, <<>>)

\* DetectDrift: the map of drift records (the error it returns is always nil)
DetectDrift(aws, tf, attrs) == detectFrom(aws, tf, attrs, 1, <<>>)

----------------------------------------------------------------------------
(* package drift: what a call leaves in the memory of its caller *)
(* Slices and maps are references: a write through one of them is seen by  *)
(* every holder of the same slice or map.  The operators below are the     *)
(* equality engine and the classifier again, each returning, next to its   *)
(* result, what the caller's second argument holds after the call.         *)

RECURSIVE compareValuesFx(_, _)

\* compareMaps over the keys of m1 still to visit: <<result, m2 afterwards>>
RECURSIVE mapsFromFx(_, _, _)
mapsFromFx(m1, keysLeft, m2) ==
    IF keysLeft = {} THEN <<TRUE, m2>>
    ELSE LET k == CHOOSE key \in keysLeft : TRUE
         IN  IF k \notin DOMAIN m2 THEN <<FALSE, m2>>
             ELSE LET r == compareValuesFx(m1[k], m2[k])
                      m2After == [m2 EXCEPT ![k] = r[2]]
                  IN  IF ~r[1] THEN <<FALSE, m2After>>
                      ELSE mapsFromFx(m1, keysLeft \ {k}, m2After)

compareMapsFx(m1, m2) ==
    IF Cardinality(DOMAIN m1) # Cardinality(DOMAIN m2) THEN <<FALSE, m2>>
    ELSE mapsFromFx(m1, DOMAIN m1, m2)

\* s2Copy[i] = nil with s2Copy sharing the array of s2
markMatched_SharedArray(s2Copy, s2, i) ==
    <<[s2Copy EXCEPT ![i] = Nil], [s2 EXCEPT ![i] = Nil]>>

\* s2Copy[i] = nil: s2Copy is the array made by make and copy, so the write
\* changes s2Copy and not s2; the result is <<s2Copy, s2>> afterwards
markMatched(s2Copy, s2, i) == <<[s2Copy EXCEPT ![i] = Nil], s2>>

\* the inner loop of compareSlices from index i on:
\* <<index matched or 0, s2Copy afterwards, s2 afterwards>>; an element of
\* s2Copy that is not nil is the same slice or map as the element of s2
RECURSIVE innerFx(_, _, _, _)
innerFx(x, i, s2Copy, s2) ==
    IF i > Len(s2Copy) THEN <<0, s2Copy, s2>>
    ELSE LET r == compareValuesFx(x, s2Copy[i])
             copyAfter == [s2Copy EXCEPT ![i] = r[2]]
             origAfter == IF s2Copy[i] = Nil THEN s2 ELSE [s2 EXCEPT ![i] = r[2]]
         IN  IF r[1]
             THEN <<i, markMatched(copyAfter, origAfter, i)[1],
                       markMatched(copyAfter, origAfter, i)[2]>>
             ELSE innerFx(x, i + 1, copyAfter, origAfter)

\* the outer loop of compareSlices from element k of s1 on:
\* <<result, s2 afterwards>>
RECURSIVE outerFx(_, _, _, _)
outerFx(s1, k, s2Copy, s2) ==
    IF k > Len(s1) THEN <<TRUE, s2>>
    ELSE LET r == innerFx(s1[k], 1, s2Copy, s2)
         IN  IF r[1] = 0 THEN <<FALSE, r[3]>>
             ELSE outerFx(s1, k + 1, r[2], r[3])

compareSlicesFx(s1, s2) ==
    IF Len(s1) # Len(s2) THEN <<FALSE, s2>>
    ELSE outerFx(s1, 1, s2, s2)

\* compareValues: <<result, y afterwards>>; normalizeValue builds a new map
\* or slice for a string-valued one, so writes to it do not reach y
compareValuesFx(x, y) ==
    IF x = Nil /\ y = Nil THEN <<TRUE, y>>
    ELSE IF x = Nil \/ y = Nil THEN <<FALSE, y>>
    ELSE LET n1 == normalizeValue(x)
             n2 == normalizeValue(y)
         IN  IF TypeOf(n1) = "map[string]any" /\ TypeOf(n2) = "map[string]any"
             THEN LET r == compareMapsFx(Payload(n1), Payload(n2))
                  IN  <<r[1], IF TypeOf(y) = "map[string]any" THEN MapAny(r[2]) ELSE y>>
             ELSE IF TypeOf(n1) = "[]any" /\ TypeOf(n2) = "[]any"
             THEN LET r == compareSlicesFx(Payload(n1), Payload(n2))
                  IN  <<r[1], IF TypeOf(y) = "[]any" THEN SliceAny(r[2]) ELSE y>>
             ELSE <<DeepEqual(n1, n2), y>>

\* the tree after the value that parts[i ..] resolves to has become val: the
\* maps on the way are the tree's own, except the map built from a
\* string-valued map, which is not part of the tree
RECURSIVE storeAt(_, _, _, _)
storeAt(current, parts, i, val) ==
    IF i > Len(parts) - 1 THEN [current EXCEPT ![parts[Len(parts)]] = val]
    ELSE IF TypeOf(current[parts[i]]) = "map[string]any"
    THEN [current EXCEPT
             ![parts[i]] = MapAny(storeAt(Payload(current[parts[i]]), parts, i + 1, val))]
    ELSE current

\* one iteration of DetectDrift's loop: the Terraform tree afterwards
checkAttributeFx(aws, tf, attr) ==
    LET a == getNestedValue(aws, attr)
        t == getNestedValue(tf, attr)
    IN  IF a[2] /\ t[2]
        THEN storeAt(tf, Split(attr), 1, compareValuesFx(a[1], t[1])[2])
        ELSE tf

\* DetectDrift's loop from element i of the checklist on: the Terraform tree
\* afterwards
RECURSIVE detectFromFx(_, _, _, _)
detectFromFx(aws, tf, attrs, i) ==
    IF i > Len(attrs) THEN tf
    ELSE detectFromFx(aws, checkAttributeFx(aws, tf, attrs[i]), attrs, i + 1)

\* DetectDrift: the Terraform tree after the call (nothing writes through
\* the AWS tree, which is only ever the first argument of compareValues, or
\* through the checklist)
DetectDriftFx(aws, tf, attrs) == detectFromFx(aws, tf, attrs, 1)

----------------------------------------------------------------------------
(* The values the calls are made with *)

StrA == <<"a">>
StrB == <<"b">>
Str8 == <<"8">>
StrEmpty == <<>>

SeqsUpTo(S, n) == UNION {[1..k -> S] : k \in 0..n}
MapsOver(K, S) == UNION {[D -> S] : D \in SUBSET K}

Keys == {StrA, StrB}

\* elements of lists and values of maps
Elems == {Nil, String(StrA), String(StrB), Float64(8), Integer("int", 8)}

\* scalars met only at the top level: the text "8", a bool, another number,
\* the number 8 in every integer type
Scalars ==
    Elems \cup {String(Str8), Bool(TRUE), Float64(9)}
          \cup {Integer(t, 8) : t \in IntTypes}

Lists == {SliceAny(s) : s \in SeqsUpTo(Elems, MaxLen)}
StringLists == {SliceString(s) : s \in SeqsUpTo({StrA, StrB}, MaxLen)}
Maps == {MapAny(m) : m \in MapsOver(Keys, Elems)}
StringMaps == {MapString(m) : m \in MapsOver(Keys, {StrA, StrB})}

\* lists and maps that are themselves elements of lists and values of maps
InnerLists == {SliceAny(<<String(StrA), Nil>>), SliceAny(<<Nil, String(StrA)>>),
               SliceAny(<<String(StrA), String(StrB)>>)}
InnerMaps == {MapAny((StrA :> Nil)), MapAny((StrA :> String(StrA))),
              MapString((StrA :> StrA))}
NestedLists ==
    {SliceAny(s) : s \in SeqsUpTo(InnerLists \cup InnerMaps \cup {Nil}, MaxLen)}
NestedMaps == {MapAny(m) : m \in MapsOver(Keys, InnerLists \cup InnerMaps)}

Values == Scalars \cup Lists \cup StringLists \cup Maps \cup StringMaps
                  \cup NestedLists \cup NestedMaps

\* the attribute paths of the checklists: "", "a", "b", "a.b", "a.", ".a"
Paths == {StrEmpty, StrA, StrB, <<"a", ".", "b">>, <<"a", ".">>, <<".", "a">>}
Checklists == SeqsUpTo(Paths, MaxChecklist)

\* what a tree stores under "a" and under "b"
ValuesA == {String(StrA), Integer("int", 8), Float64(8), Nil,
            MapAny((StrB :> String(StrA))), MapAny((StrB :> String(StrB))),
            MapString((StrB :> StrA)), MapAny((StrEmpty :> String(StrA))),
            SliceAny(<<String(StrA)>>)}
ValuesB == {String(StrA), String(StrB)}
Trees ==
    {<<>>} \cup {(StrA :> x) : x \in ValuesA} \cup {(StrB :> y) : y \in ValuesB}
           \cup {(StrA :> x) @@ (StrB :> y) : x \in ValuesA, y \in ValuesB}
           \cup {(StrEmpty :> String(StrA))}

\* the paths and trees of the calls of getNestedValue: also "a..b", "a.b.a",
\* "b.a", ".", and trees three maps deep
ResolvePaths ==
    Paths \cup {<<"a", ".", ".", "b">>, <<"a", ".", "b", ".", "a">>,
                <<"b", ".", "a">>, <<".">>, <<"a", ".", "a">>}
ResolveTrees ==
    Trees \cup {(StrA :> MapAny((StrB :> MapAny((StrA :> x))))) : x \in {Nil, String(StrB)}}
          \cup {(StrA :> MapAny((StrB :> MapString((StrA :> StrB))))),
                (StrA :> MapAny((StrEmpty :> MapAny((StrB :> String(StrA)))))),
                (StrEmpty :> MapAny((StrEmpty :> String(StrB)))),
                (StrA :> MapAny((StrB :> SliceAny(<<MapAny((StrA :> String(StrA)))>>)))),
                (StrB :> MapString((StrA :> StrA)))}

----------------------------------------------------------------------------
(* The calls *)

\* compareValues(v1, v2) is called and returns
CompareValuesCall ==
    /\ cmpPc = "call"
    /\ cmpResult' = compareValues(v1, v2)
    /\ cmpPc' = "done"
    /\ UNCHANGED <<v1, v2, detVars, nestVars, poolVars, startVars, mapVars, laterVars>>

\* DetectDrift(awsConfig, tfConfig, attributesToCheck) is called and returns
DetectDriftCall ==
    /\ detPc = "call"
    /\ drifts' = DetectDrift(awsConfig, tfConfig, attributesToCheck)
    /\ detErr' = Nil
    /\ awsAfter' = awsConfig
    /\ tfAfter' = DetectDriftFx(awsConfig, tfConfig, attributesToCheck)
    /\ attrsAfter' = attributesToCheck
    /\ detPc' = "done"
    /\ UNCHANGED <<awsConfig, tfConfig, attributesToCheck, cmpVars, nestVars, poolVars, startVars, mapVars, laterVars>>

\* getNestedValue(nestData, nestPath) is called and returns
GetNestedValueCall ==
    /\ nestPc = "call"
    /\ nestResult' = getNestedValue(nestData, nestPath)
    /\ nestPc' = "done"
    /\ UNCHANGED <<nestData, nestPath, cmpVars, detVars, poolVars, startVars, mapVars, laterVars>>

\* no call of the other operation is pending
CmpIdle == v1 = Nil /\ v2 = Nil /\ cmpPc = "idle" /\ cmpResult = FALSE
DetIdle ==
    /\ awsConfig = <<>> /\ tfConfig = <<>> /\ attributesToCheck = <<>>
    /\ detPc = "idle" /\ drifts = <<>> /\ detErr = Nil
    /\ awsAfter = <<>> /\ tfAfter = <<>> /\ attrsAfter = <<>>
NestIdle ==
    /\ nestData = <<>> /\ nestPath = <<>> /\ nestPc = "idle"
    /\ nestResult = <<Nil, FALSE>>
PoolIdle ==
    /\ instanceIDs = <<>> /\ maxConcurrency = 0 /\ runPc = "idle" /\ dispatchIdx = 1
    /\ workerPool = 0 /\ wPc = <<>> /\ resultsChan = <<>> /\ received = <<>>
    /\ hasErrors = FALSE /\ cancelled = FALSE
\* the values absent flags and unset package variables have
NotGiven == <<"absent">>
Given(list) == <<"given", list>>
NilPtr == <<"nil pointer">>
Ptr(x) == <<"pointer", x>>
StartIdle ==
    /\ argInstances = NotGiven /\ argState = "" /\ argConfig = "" /\ argSimulate = FALSE
    /\ argTarget = "" /\ clientOk = FALSE /\ instanceID = "" /\ tfStatePath = ""
    /\ tfConfigPath = "" /\ startPc = "idle"
MapIdle ==
    /\ instance = <<>> /\ volumeLookup = <<>> /\ mapPc = "idle" /\ mapConfig = <<>>
    /\ mapErr = Nil
CacheIdle ==
    /\ cData = <<>> /\ cTtl = 0 /\ clock = 0 /\ readers = {} /\ writers = {}
    /\ gPc = <<>> /\ gOp = <<>> /\ gNow = <<>> /\ gResult = <<>> /\ gCalls = <<>>
    /\ settled = <<>>
ParseIdle ==
    /\ psFile = Nil /\ psPath = <<>> /\ psId = <<>> /\ psPc = "idle" /\ psResult = <<>>
    /\ psErr = Nil
FormatIdle ==
    /\ fmtDrifts = <<>> /\ fmtId = <<>> /\ fmtFormat = <<>> /\ fmtPc = "idle" /\ fmtOut1 = <<>>
    /\ fmtOut2 = <<>> /\ strRec = <<>> /\ strPc = "idle" /\ strOut = <<>>
FetchIdle ==
    /\ fCtx = "live" /\ fPc = "idle" /\ fElapsed = 0 /\ fResp = <<>> /\ fCalls = <<>>
    /\ fVolIdx = 0 /\ fLookup = <<>> /\ fConfig = <<>> /\ fErr = Nil
LaterIdle == CacheIdle /\ ParseIdle /\ FormatIdle /\ FetchIdle

\* a call of DetectDrift on any two trees and any checklist
Init ==
    /\ awsConfig \in Trees
    /\ tfConfig \in Trees
    /\ attributesToCheck \in Checklists
    /\ detPc = "call"
    /\ drifts = <<>>
    /\ detErr = Nil
    /\ awsAfter = awsConfig
    /\ tfAfter = tfConfig
    /\ attrsAfter = attributesToCheck
    /\ CmpIdle
    /\ NestIdle
    /\ PoolIdle
    /\ StartIdle
    /\ MapIdle
    /\ LaterIdle

Next == DetectDriftCall

Spec == Init /\ [][Next]_vars

\* a call of compareValues on any two values
InitCompare ==
    /\ v1 \in Values
    /\ v2 \in Values
    /\ cmpPc = "call"
    /\ cmpResult = FALSE
    /\ DetIdle
    /\ NestIdle
    /\ PoolIdle
    /\ StartIdle
    /\ MapIdle
    /\ LaterIdle

NextCompare == CompareValuesCall

SpecCompare == InitCompare /\ [][NextCompare]_vars

\* a call of getNestedValue on any tree and any path
InitResolve ==
    /\ nestData \in ResolveTrees
    /\ nestPath \in ResolvePaths
    /\ nestPc = "call"
    /\ nestResult = <<Nil, FALSE>>
    /\ CmpIdle
    /\ DetIdle
    /\ PoolIdle
    /\ StartIdle
    /\ MapIdle
    /\ LaterIdle

NextResolve == GetNestedValueCall

SpecResolve == InitResolve /\ [][NextResolve]_vars

----------------------------------------------------------------------------
(* The drift command's worker pool and collector *)

\* the identifiers a run can be given; a list may name one twice
InstanceIds == {"i-1", "i-2"}
IdLists == SeqsUpTo(InstanceIds, MaxIds)

\* the worker dispatched for the i-th identifier of the list
Workers == 1..Len(instanceIDs)

\* the Run function has neither returned nor exited the process
Running == runPc \in {"dispatch", "collect"}

\* a worker between its acquire and its deferred release
InFlight(i) == wPc[i] \in {"fetch", "parse", "detect", "release"}

\* the loop variable captured by each closure instead of the argument
workerInstanceID_SharedLoopVar(i) ==
    instanceIDs[IF dispatchIdx > Len(instanceIDs) THEN Len(instanceIDs) ELSE dispatchIdx]

\* the instanceID parameter of the goroutine started for the i-th identifier
workerInstanceID(i) == instanceIDs[i]

\* the struct a worker sends: `from` names the sending goroutine and is not a
\* field of the Go struct; err is "none" for a nil error
Result(i, e) == [from |-> i, instanceID |-> workerInstanceID(i), err |-> e]

\* resultsChan <- r on a channel of capacity len(instanceIDs)
CanSend == Len(resultsChan) < Len(instanceIDs)

\* the loop body started although the pool is full
Dispatch_NoAcquire ==
    /\ runPc = "dispatch"
    /\ dispatchIdx <= Len(instanceIDs)
    /\ workerPool' = workerPool + 1
    /\ wPc' = [wPc EXCEPT ![dispatchIdx] = "fetch"]
    /\ dispatchIdx' = dispatchIdx + 1
    /\ runPc' = IF dispatchIdx = Len(instanceIDs) THEN "collect" ELSE "dispatch"
    /\ UNCHANGED <<instanceIDs, maxConcurrency, resultsChan, received, hasErrors, cancelled>>

\* one iteration of the dispatch loop: acquire a slot, start the goroutine;
\* after the last iteration Run goes on to the collect loop
Dispatch ==
    /\ runPc = "dispatch"
    /\ dispatchIdx <= Len(instanceIDs)
    /\ workerPool < maxConcurrency
    /\ workerPool' = workerPool + 1
    /\ wPc' = [wPc EXCEPT ![dispatchIdx] = "fetch"]
    /\ dispatchIdx' = dispatchIdx + 1
    /\ runPc' = IF dispatchIdx = Len(instanceIDs) THEN "collect" ELSE "dispatch"
    /\ UNCHANGED <<instanceIDs, maxConcurrency, resultsChan, received, hasErrors, cancelled>>

\* GetEC2InstanceConfig returns: with an error the worker sends an error
\* result and returns.  The call can succeed after the context is cancelled:
\* nothing after the describe call reads the context, and the volume lookups
\* use context.Background()
WorkerFetch(i) ==
    /\ Running
    /\ wPc[i] = "fetch"
    /\ \E ok \in BOOLEAN :
        IF ok
        THEN /\ wPc' = [wPc EXCEPT ![i] = "parse"]
             /\ UNCHANGED resultsChan
        ELSE /\ CanSend
             /\ resultsChan' = Append(resultsChan, Result(i, "fetch"))
             /\ wPc' = [wPc EXCEPT ![i] = "release"]
    /\ UNCHANGED <<instanceIDs, maxConcurrency, runPc, dispatchIdx, workerPool, received,
                   hasErrors, cancelled>>

\* ParseStateFile or ParseHCLConfig returns: with an error the worker sends
\* an error result and returns
WorkerParse(i) ==
    /\ Running
    /\ wPc[i] = "parse"
    /\ \E ok \in BOOLEAN :
        IF ok
        THEN /\ wPc' = [wPc EXCEPT ![i] = "detect"]
             /\ UNCHANGED resultsChan
        ELSE /\ CanSend
             /\ resultsChan' = Append(resultsChan, Result(i, "parse"))
             /\ wPc' = [wPc EXCEPT ![i] = "release"]
    /\ UNCHANGED <<instanceIDs, maxConcurrency, runPc, dispatchIdx, workerPool, received,
                   hasErrors, cancelled>>

\* DetectDrift returns, always with a nil error, and the worker sends the result
WorkerDetect(i) ==
    /\ Running
    /\ wPc[i] = "detect"
    /\ CanSend
    /\ resultsChan' = Append(resultsChan, Result(i, "none"))
    /\ wPc' = [wPc EXCEPT ![i] = "release"]
    /\ UNCHANGED <<instanceIDs, maxConcurrency, runPc, dispatchIdx, workerPool, received,
                   hasErrors, cancelled>>

\* the deferred <-workerPool, and the goroutine ends
WorkerRelease(i) ==
    /\ Running
    /\ wPc[i] = "release"
    /\ workerPool > 0
    /\ workerPool' = workerPool - 1
    /\ wPc' = [wPc EXCEPT ![i] = "exited"]
    /\ UNCHANGED <<instanceIDs, maxConcurrency, runPc, dispatchIdx, resultsChan, received,
                   hasErrors, cancelled>>

\* the collector that exits on the first error result it receives
Collect_FatalOnFirstError ==
    /\ runPc = "collect"
    /\ Len(received) < Len(instanceIDs)
    /\ resultsChan # <<>>
    /\ received' = Append(received, Head(resultsChan))
    /\ resultsChan' = Tail(resultsChan)
    /\ hasErrors' = (hasErrors \/ Head(resultsChan).err # "none")
    /\ runPc' = IF Head(resultsChan).err # "none" THEN "fatal" ELSE "collect"
    /\ UNCHANGED <<instanceIDs, maxConcurrency, dispatchIdx, workerPool, wPc, cancelled>>

\* one iteration of the collect loop: receive a result, note an error
Collect ==
    /\ runPc = "collect"
    /\ Len(received) < Len(instanceIDs)
    /\ resultsChan # <<>>
    /\ received' = Append(received, Head(resultsChan))
    /\ resultsChan' = Tail(resultsChan)
    /\ hasErrors' = (hasErrors \/ Head(resultsChan).err # "none")
    /\ UNCHANGED <<instanceIDs, maxConcurrency, runPc, dispatchIdx, workerPool, wPc, cancelled>>

\* after the collect loop: logger.Fatal (the process exits with status 1) if
\* a result carried an error, and otherwise Run returns
Finish ==
    /\ runPc = "collect"
    /\ Len(received) = Len(instanceIDs)
    /\ runPc' = IF hasErrors THEN "fatal" ELSE "success"
    /\ UNCHANGED <<instanceIDs, maxConcurrency, dispatchIdx, workerPool, wPc, resultsChan,
                   received, hasErrors, cancelled>>

\* an interrupt arrives and Execute's goroutine cancels the context
Cancel ==
    /\ Running
    /\ ~cancelled
    /\ cancelled' = TRUE
    /\ UNCHANGED <<instanceIDs, maxConcurrency, runPc, dispatchIdx, workerPool, wPc,
                   resultsChan, received, hasErrors>>

\* Run has reached the two make(chan ...) calls with any identifier list and
\* any limit
InitPool ==
    /\ instanceIDs \in IdLists
    /\ maxConcurrency \in 0..MaxConcurrency
    /\ runPc = IF instanceIDs = <<>> THEN "collect" ELSE "dispatch"
    /\ dispatchIdx = 1
    /\ workerPool = 0
    /\ wPc = [i \in Workers |-> "none"]
    /\ resultsChan = <<>>
    /\ received = <<>>
    /\ hasErrors = FALSE
    /\ cancelled = FALSE
    /\ CmpIdle
    /\ DetIdle
    /\ NestIdle
    /\ StartIdle
    /\ MapIdle
    /\ LaterIdle

NextPool ==
    \/ Dispatch /\ UNCHANGED <<cmpVars, detVars, nestVars, startVars, mapVars, laterVars>>
    \/ \E i \in Workers : WorkerFetch(i) /\ UNCHANGED <<cmpVars, detVars, nestVars, startVars, mapVars, laterVars>>
    \/ \E i \in Workers : WorkerParse(i) /\ UNCHANGED <<cmpVars, detVars, nestVars, startVars, mapVars, laterVars>>
    \/ \E i \in Workers : WorkerDetect(i) /\ UNCHANGED <<cmpVars, detVars, nestVars, startVars, mapVars, laterVars>>
    \/ \E i \in Workers : WorkerRelease(i) /\ UNCHANGED <<cmpVars, detVars, nestVars, startVars, mapVars, laterVars>>
    \/ Collect /\ UNCHANGED <<cmpVars, detVars, nestVars, startVars, mapVars, laterVars>>
    \/ Finish /\ UNCHANGED <<cmpVars, detVars, nestVars, startVars, mapVars, laterVars>>
    \/ Cancel /\ UNCHANGED <<cmpVars, detVars, nestVars, startVars, mapVars, laterVars>>

SpecPool == InitPool /\ [][NextPool]_vars

----------------------------------------------------------------------------
(* The drift command's flags and the startup checks of Run *)

\* the file paths a command line can name
StatePaths == {"", "terraform.tfstate"}
ConfigPaths == {"", "./terraform/"}
TargetPaths == {"", "target.tfstate"}

\* the startup of Run without its first test
startupOutcome_NoInstanceCheck(id, simulate, state, target, config, ok) ==
    IF simulate
    THEN IF state = "" \/ target = "" THEN "fatal" ELSE "simulate"
    ELSE IF state = "" /\ config = "" THEN "fatal"
    ELSE IF ~ok THEN "fatal"
    ELSE "dispatch"

\* how the startup of Run ends: "fatal" at a logger.Fatal call, "simulate" at
\* the call of SimulateDrift, "dispatch" at the dispatch loop
startupOutcome(id, simulate, state, target, config, ok) ==
    IF id = "" THEN "fatal"
    ELSE IF simulate
    THEN IF state = "" \/ target = "" THEN "fatal" ELSE "simulate"
    ELSE IF state = "" /\ config = "" THEN "fatal"
    ELSE IF ~ok THEN "fatal"
    ELSE "dispatch"

\* cobra parses the command line: the flags bound in init() store into their
\* variables (none stores into instanceID), and a command line without the
\* required --instances flag ends in a usage error before Run is called
ParseFlags ==
    /\ startPc = "args"
    /\ tfStatePath' = argState
    /\ tfConfigPath' = argConfig
    /\ startPc' = IF argInstances = NotGiven THEN "usage" ELSE "run"
    /\ UNCHANGED <<argInstances, argState, argConfig, argSimulate, argTarget, clientOk,
                   instanceID>>

\* Run from its first statement up to the dispatch loop
RunStartup ==
    /\ startPc = "run"
    /\ startPc' = startupOutcome(instanceID, argSimulate, tfStatePath, argTarget,
                                 tfConfigPath, clientOk)
    /\ UNCHANGED <<argInstances, argState, argConfig, argSimulate, argTarget, clientOk,
                   instanceID, tfStatePath, tfConfigPath>>

\* the drift command is invoked with any flags
InitStartup ==
    /\ argInstances \in {NotGiven} \cup {Given(l) : l \in IdLists}
    /\ argState \in StatePaths
    /\ argConfig \in ConfigPaths
    /\ argSimulate \in BOOLEAN
    /\ argTarget \in TargetPaths
    /\ clientOk \in BOOLEAN
    /\ instanceID = ""
    /\ tfStatePath = ""
    /\ tfConfigPath = ""
    /\ startPc = "args"
    /\ CmpIdle
    /\ DetIdle
    /\ NestIdle
    /\ PoolIdle
    /\ MapIdle
    /\ LaterIdle

NextStartup ==
    \/ ParseFlags /\ UNCHANGED <<cmpVars, detVars, nestVars, poolVars, mapVars, laterVars>>
    \/ RunStartup /\ UNCHANGED <<cmpVars, detVars, nestVars, poolVars, mapVars, laterVars>>

SpecStartup == InitStartup /\ [][NextStartup]_vars

----------------------------------------------------------------------------
(* mapInstanceToConfig: the tree built from an EC2 instance *)

\* a map key or string value without a dot, as one segment
Key(name) == <<name>>
\* a []map[string]any value; its elements are maps, not values of type any
SliceMapAny(s) == <<"[]map[string]any", s>>
\* the pointers the SDK's Volume holds, stored as they are
PtrInt32(p) == <<"*int32", p>>
PtrBool(p) == <<"*bool", p>>
\* a non-nil error
ErrorOf(msg) == <<"error", msg>>

\* aws.ToString and aws.ToBool: the zero value for a nil pointer
awsToString(p) == IF p = NilPtr THEN <<>> ELSE p[2]
awsToBool(p) == IF p = NilPtr THEN FALSE ELSE p[2]

\* getVolumeInfo: <<volumeInfo, err>> for what DescribeVolumes answers
getVolumeInfo(volumeID, vols) ==
    LET resp == vols[volumeID] IN
    IF resp.kind = "error" THEN <<<<>>, ErrorOf("error describing volume")>>
    ELSE IF resp.kind = "empty" THEN <<<<>>, ErrorOf("volume not found")>>
    ELSE LET base == (Key("volume_size") :> PtrInt32(resp.Size))
                     @@ (Key("volume_type") :> String(resp.VolumeType))
                     @@ (Key("encrypted") :> PtrBool(resp.Encrypted))
         IN  <<IF resp.Iops # NilPtr THEN base @@ (Key("iops") :> PtrInt32(resp.Iops))
                                      ELSE base,
               Nil>>

\* the device map of one EBS mapping: three fields of the mapping, and the
\* volume's fields over them when the lookup succeeds
blockDevice(bdm, vols) ==
    LET device == (Key("device_name") :> String(awsToString(bdm.DeviceName)))
                  @@ (Key("volume_id") :> String(awsToString(bdm.Ebs[2].VolumeId)))
                  @@ (Key("delete_on_termination") :> Bool(awsToBool(bdm.Ebs[2].DeleteOnTermination)))
        looked == getVolumeInfo(awsToString(bdm.Ebs[2].VolumeId), vols)
    IN  IF looked[2] # Nil THEN device
        ELSE [k \in DOMAIN device \cup DOMAIN looked[1] |->
                 IF k \in DOMAIN looked[1] THEN looked[1][k] ELSE device[k]]

\* the loop body that appends nothing when the lookup fails
devicesOf_DropsFailedLookup(bdm, vols) ==
    IF bdm.Ebs = NilPtr THEN <<>>
    ELSE IF getVolumeInfo(awsToString(bdm.Ebs[2].VolumeId), vols)[2] # Nil THEN <<>>
    ELSE <<blockDevice(bdm, vols)>>

\* what one iteration of the loop over BlockDeviceMappings appends
devicesOf(bdm, vols) ==
    IF bdm.Ebs = NilPtr THEN <<>> ELSE <<blockDevice(bdm, vols)>>

\* the loop over BlockDeviceMappings
RECURSIVE blockDevices(_, _)
blockDevices(mappings, vols) ==
    IF mappings = <<>> THEN <<>>
    ELSE devicesOf(Head(mappings), vols) \o blockDevices(Tail(mappings), vols)

\* mapInstanceToConfig: <<config, err>>
mapInstanceToConfig(inst, vols) ==
    <<(Key("instance_type") :> String(inst.InstanceType))
      @@ (Key("ami") :> String(awsToString(inst.ImageId)))
      @@ (Key("subnet_id") :> String(awsToString(inst.SubnetId)))
      @@ (Key("associate_public_ip_address") :> Bool(inst.PublicIpAddress # NilPtr))
      @@ (Key("vpc_security_group_ids") :>
             SliceString([k \in DOMAIN inst.SecurityGroups |->
                             awsToString(inst.SecurityGroups[k].GroupId)]))
      @@ (Key("tags") :>
             MapString([t \in {awsToString(inst.Tags[k].Key) : k \in DOMAIN inst.Tags} |->
                 LET last == CHOOSE k \in DOMAIN inst.Tags :
                                 /\ awsToString(inst.Tags[k].Key) = t
                                 /\ \A j \in DOMAIN inst.Tags :
                                        awsToString(inst.Tags[j].Key) = t => j <= k
                 IN  awsToString(inst.Tags[last].Value)]))
      @@ (Key("ebs_block_device") :> SliceMapAny(blockDevices(inst.BlockDeviceMappings, vols))),
      Nil>>

\* the device names and volume ids of an instance's mappings, by position
DeviceNames == <<Key("/dev/sda1"), Key("/dev/sdf"), Key("/dev/sdg"), Key("/dev/sdh")>>
VolumeIds == <<Key("vol-1"), Key("vol-2"), Key("vol-3"), Key("vol-4")>>

\* the mappings an instance can have at position k: one without an EBS
\* volume, or one with a volume with or without the DeleteOnTermination field
MappingsAt(k) ==
    {[DeviceName |-> Ptr(DeviceNames[k]), Ebs |-> NilPtr]}
    \cup {[DeviceName |-> Ptr(DeviceNames[k]),
           Ebs |-> Ptr([VolumeId |-> Ptr(VolumeIds[k]), DeleteOnTermination |-> d])] :
          d \in {NilPtr, Ptr(TRUE), Ptr(FALSE)}}
MappingLists ==
    UNION {{s \in [1..n -> UNION {MappingsAt(k) : k \in 1..n}] :
               \A k \in 1..n : s[k] \in MappingsAt(k)} : n \in 0..MaxDevices}

\* what DescribeVolumes can answer for one volume id: an error, no volume,
\* or a volume with or without Iops
VolumeAnswers ==
    {[kind |-> "error"], [kind |-> "empty"]}
    \cup {[kind |-> "volume", Size |-> Ptr(8), VolumeType |-> Key("gp3"),
           Encrypted |-> Ptr(TRUE), Iops |-> i] : i \in {NilPtr, Ptr(3000)}}

\* the instances handed to mapInstanceToConfig
Instances ==
    {[InstanceType |-> <<"t2", ".", "micro">>,
      ImageId |-> Ptr(Key("ami-1")),
      SubnetId |-> NilPtr,
      PublicIpAddress |-> ip,
      SecurityGroups |-> <<[GroupId |-> Ptr(Key("sg-1"))]>>,
      Tags |-> <<[Key |-> Ptr(Key("Name")), Value |-> Ptr(Key("web"))]>>,
      BlockDeviceMappings |-> m] :
     ip \in {NilPtr, Ptr(<<"10", ".", "0", ".", "0", ".", "1">>)}, m \in MappingLists}

\* the volume ids mapInstanceToConfig looks up for an instance
VolumesOf(inst) ==
    {awsToString(inst.BlockDeviceMappings[k].Ebs[2].VolumeId) :
        k \in {j \in DOMAIN inst.BlockDeviceMappings :
                  inst.BlockDeviceMappings[j].Ebs # NilPtr}}

\* mapInstanceToConfig(instance) is called and returns
MapInstanceCall ==
    /\ mapPc = "call"
    /\ mapConfig' = mapInstanceToConfig(instance, volumeLookup)[1]
    /\ mapErr' = mapInstanceToConfig(instance, volumeLookup)[2]
    /\ mapPc' = "done"
    /\ UNCHANGED <<instance, volumeLookup>>

\* a call of mapInstanceToConfig on any instance, with any answers to its
\* volume lookups
InitMap ==
    /\ instance \in Instances
    /\ volumeLookup \in [VolumesOf(instance) -> VolumeAnswers]
    /\ mapPc = "call"
    /\ mapConfig = <<>>
    /\ mapErr = Nil
    /\ CmpIdle
    /\ DetIdle
    /\ NestIdle
    /\ PoolIdle
    /\ StartIdle
    /\ LaterIdle

NextMap == MapInstanceCall /\ UNCHANGED <<cmpVars, detVars, nestVars, poolVars, startVars, laterVars>>

SpecMap == InitMap /\ [][NextMap]_vars

----------------------------------------------------------------------------
(* package cache: a map of entries behind a sync.RWMutex *)

\* the goroutines that call the cache, the keys and the values they use
Goroutines == {"g1", "g2"}
CacheKeys == {"k1", "k2"}
CacheValues == {String(Key("v1")), String(Key("v2"))}

\* the calls a goroutine can make
CacheOps ==
    {[op |-> "Set", key |-> k, value |-> v] : k \in CacheKeys, v \in CacheValues}
    \cup {[op |-> o, key |-> k, value |-> Nil] : o \in {"Get", "Delete"}, k \in CacheKeys}
    \cup {[op |-> o, key |-> "", value |-> Nil] : o \in {"Clear", "Cleanup"}}
NoOp == [op |-> "none", key |-> "", value |-> Nil]

\* a CacheEntry
Entry(v, e) == [Value |-> v, Expiration |-> e]
\* time.Time.After
After(t, u) == t > u
\* m[k] = e and delete(m, k) on a Go map
store(m, k, e) == [x \in DOMAIN m \cup {k} |-> IF x = k THEN e ELSE m[x]]
remove(m, k) == [x \in DOMAIN m \ {k} |-> m[x]]

\* the loop of Cleanup that deletes every entry, expired or not
sweep_Everything(m, now) == [x \in {} |-> m[x]]

\* the loop of Cleanup: the entries that now is not after stay
sweep(m, now) == [x \in {y \in DOMAIN m : ~After(now, m[y].Expiration)} |-> m[x]]

\* the test of Get that never finds an entry expired
expired_Never(entry, now) == FALSE

\* the test of Get: time.Now().After(entry.Expiration)
expired(entry, now) == After(now, entry.Expiration)

\* a call that, run after a Set of key k, ends what that Set promises
Voids(o, k) == o.op \in {"Clear", "Cleanup"} \/ (o.op \in {"Set", "Delete"} /\ o.key = k)

\* mutex.Lock() that does not wait for the readers
canLock_IgnoringReaders == writers = {}

\* mutex.Lock() can return: nobody holds the mutex
canLock == writers = {} /\ readers = {}

\* mutex.RLock() can return: nobody holds the mutex for writing
canRLock == writers = {}

\* a goroutine calls Set, Get, Delete, Clear or Cleanup
Call(g, o) ==
    /\ gPc[g] = "idle"
    /\ gCalls[g] < MaxCalls
    /\ gOp' = [gOp EXCEPT ![g] = o]
    /\ gPc' = [gPc EXCEPT ![g] = IF o.op = "Get" THEN "rlock" ELSE "lock"]
    /\ gCalls' = [gCalls EXCEPT ![g] = @ + 1]
    /\ settled' = [k \in {x \in DOMAIN settled : ~Voids(o, x)} |-> settled[k]]
    /\ UNCHANGED <<cData, cTtl, clock, readers, writers, gNow, gResult>>

\* c.mutex.Lock() returns, at the start of Set, Delete, Clear and Cleanup and
\* in Get's path for an expired entry
Lock(g) ==
    /\ gPc[g] \in {"lock", "exp_lock"}
    /\ canLock
    /\ writers' = writers \cup {g}
    /\ gPc' = [gPc EXCEPT ![g] = IF @ = "lock" THEN "body" ELSE "exp_delete"]
    /\ UNCHANGED <<cData, cTtl, clock, readers, gOp, gNow, gResult, gCalls, settled>>

\* Set's assignment c.data[key] = CacheEntry{value, time.Now().Add(c.ttl)}
SetStore(g) ==
    /\ gPc[g] = "body" /\ gOp[g].op = "Set"
    /\ cData' = store(cData, gOp[g].key, Entry(gOp[g].value, clock + cTtl))
    /\ gPc' = [gPc EXCEPT ![g] = "unlock"]
    /\ UNCHANGED <<cTtl, clock, readers, writers, gOp, gNow, gResult, gCalls, settled>>

\* Delete's delete(c.data, key)
DeleteEntry(g) ==
    /\ gPc[g] = "body" /\ gOp[g].op = "Delete"
    /\ cData' = remove(cData, gOp[g].key)
    /\ gPc' = [gPc EXCEPT ![g] = "unlock"]
    /\ UNCHANGED <<cTtl, clock, readers, writers, gOp, gNow, gResult, gCalls, settled>>

\* Clear's c.data = make(map[string]CacheEntry)
ClearAll(g) ==
    /\ gPc[g] = "body" /\ gOp[g].op = "Clear"
    /\ cData' = <<>>
    /\ gPc' = [gPc EXCEPT ![g] = "unlock"]
    /\ UNCHANGED <<cTtl, clock, readers, writers, gOp, gNow, gResult, gCalls, settled>>

\* Cleanup's now := time.Now() and its loop over c.data
CleanupExpired(g) ==
    /\ gPc[g] = "body" /\ gOp[g].op = "Cleanup"
    /\ cData' = sweep(cData, clock)
    /\ gPc' = [gPc EXCEPT ![g] = "unlock"]
    /\ UNCHANGED <<cTtl, clock, readers, writers, gOp, gNow, gResult, gCalls, settled>>

\* c.mutex.Unlock(): deferred in Set, Delete, Clear and Cleanup, explicit in
\* Get's path for an expired entry.  A Set that returns while no call that
\* voids it is under way is recorded in the history variable
Unlock(g) ==
    /\ gPc[g] \in {"unlock", "exp_unlock"}
    /\ writers' = writers \ {g}
    /\ gPc' = [gPc EXCEPT ![g] = IF @ = "unlock" THEN "idle" ELSE "exp_rlock"]
    /\ settled' =
          IF /\ gPc[g] = "unlock"
             /\ gOp[g].op = "Set"
             /\ gOp[g].key \in DOMAIN cData
             /\ \A h \in Goroutines \ {g} : gPc[h] = "idle" \/ ~Voids(gOp[h], gOp[g].key)
          THEN store(settled, gOp[g].key, cData[gOp[g].key])
          ELSE settled
    /\ UNCHANGED <<cData, cTtl, clock, readers, gOp, gNow, gResult, gCalls>>

\* c.mutex.RLock() returns, at the start of Get and at the end of its path
\* for an expired entry
RLock(g) ==
    /\ gPc[g] \in {"rlock", "exp_rlock"}
    /\ canRLock
    /\ readers' = readers \cup {g}
    /\ gPc' = [gPc EXCEPT ![g] = IF @ = "rlock" THEN "read" ELSE "runlock"]
    /\ UNCHANGED <<cData, cTtl, clock, writers, gOp, gNow, gResult, gCalls, settled>>

\* Get's lookup and its expiration test: the value to return is decided here
GetRead(g) ==
    /\ gPc[g] = "read"
    /\ IF gOp[g].key \notin DOMAIN cData
       THEN /\ gResult' = [gResult EXCEPT ![g] = <<Nil, FALSE>>]
            /\ gPc' = [gPc EXCEPT ![g] = "runlock"]
            /\ UNCHANGED gNow
       ELSE /\ gNow' = [gNow EXCEPT ![g] = clock]
            /\ IF expired(cData[gOp[g].key], clock)
               THEN /\ gResult' = [gResult EXCEPT ![g] = <<Nil, FALSE>>]
                    /\ gPc' = [gPc EXCEPT ![g] = "exp_runlock"]
               ELSE /\ gResult' = [gResult EXCEPT ![g] = <<cData[gOp[g].key].Value, TRUE>>]
                    /\ gPc' = [gPc EXCEPT ![g] = "runlock"]
    /\ UNCHANGED <<cData, cTtl, clock, readers, writers, gOp, gCalls, settled>>

\* delete(c.data, key) in Get's path for an expired entry
GetDeleteExpired(g) ==
    /\ gPc[g] = "exp_delete"
    /\ cData' = remove(cData, gOp[g].key)
    /\ gPc' = [gPc EXCEPT ![g] = "exp_unlock"]
    /\ UNCHANGED <<cTtl, clock, readers, writers, gOp, gNow, gResult, gCalls, settled>>

\* c.mutex.RUnlock(): explicit in Get's path for an expired entry, deferred
\* at Get's return
RUnlock(g) ==
    /\ gPc[g] \in {"exp_runlock", "runlock"}
    /\ readers' = readers \ {g}
    /\ gPc' = [gPc EXCEPT ![g] = IF @ = "runlock" THEN "idle" ELSE "exp_lock"]
    /\ gNow' = [gNow EXCEPT ![g] = IF gPc[g] = "runlock" THEN 0 ELSE @]
    /\ UNCHANGED <<cData, cTtl, clock, writers, gOp, gResult, gCalls, settled>>

\* time passes
Tick ==
    /\ clock < MaxClock
    /\ clock' = clock + 1
    /\ UNCHANGED <<cData, cTtl, readers, writers, gPc, gOp, gNow, gResult, gCalls, settled>>

\* NewCache(ttl) has returned and no goroutine has called the cache yet
InitCache ==
    /\ cData = <<>>
    /\ cTtl \in 0..MaxTtl
    /\ clock = 0
    /\ readers = {}
    /\ writers = {}
    /\ gPc = [g \in Goroutines |-> "idle"]
    /\ gOp = [g \in Goroutines |-> NoOp]
    /\ gNow = [g \in Goroutines |-> 0]
    /\ gResult = [g \in Goroutines |-> <<Nil, FALSE>>]
    /\ gCalls = [g \in Goroutines |-> 0]
    /\ settled = <<>>
    /\ CmpIdle
    /\ DetIdle
    /\ NestIdle
    /\ PoolIdle
    /\ StartIdle
    /\ MapIdle
    /\ ParseIdle
    /\ FormatIdle
    /\ FetchIdle

\* the next statement of the call goroutine g is in
CacheStep(g) ==
    \/ Lock(g)
    \/ SetStore(g)
    \/ DeleteEntry(g)
    \/ ClearAll(g)
    \/ CleanupExpired(g)
    \/ Unlock(g)
    \/ RLock(g)
    \/ GetRead(g)
    \/ GetDeleteExpired(g)
    \/ RUnlock(g)

\* the variables the cache leaves alone
notCacheVars ==
    <<cmpVars, detVars, nestVars, poolVars, startVars, mapVars, parseVars, fmtVars, fetchVars>>

NextCache ==
    \/ \E g \in Goroutines, o \in CacheOps : Call(g, o) /\ UNCHANGED notCacheVars
    \/ \E g \in Goroutines : Lock(g) /\ UNCHANGED notCacheVars
    \/ \E g \in Goroutines : SetStore(g) /\ UNCHANGED notCacheVars
    \/ \E g \in Goroutines : DeleteEntry(g) /\ UNCHANGED notCacheVars
    \/ \E g \in Goroutines : ClearAll(g) /\ UNCHANGED notCacheVars
    \/ \E g \in Goroutines : CleanupExpired(g) /\ UNCHANGED notCacheVars
    \/ \E g \in Goroutines : Unlock(g) /\ UNCHANGED notCacheVars
    \/ \E g \in Goroutines : RLock(g) /\ UNCHANGED notCacheVars
    \/ \E g \in Goroutines : GetRead(g) /\ UNCHANGED notCacheVars
    \/ \E g \in Goroutines : GetDeleteExpired(g) /\ UNCHANGED notCacheVars
    \/ \E g \in Goroutines : RUnlock(g) /\ UNCHANGED notCacheVars
    \/ Tick /\ UNCHANGED notCacheVars

SpecCache == InitCache /\ [][NextCache]_vars

----------------------------------------------------------------------------
(* ParseStateFile: the attributes of an instance in a Terraform state file *)

\* what os.Open and the JSON decoder can give instead of a decoded document
OpenError == <<"open error">>
DecodeError == <<"decode error">>

\* m[k] on a map[string]any: the nil interface for a missing key
index(m, k) == IF k \in DOMAIN m THEN m[k] ELSE Nil
\* the type assertions v.(map[string]any), v.([]any) and v.(string) succeed
isMapAny(v) == TypeOf(v) = "map[string]any"
isSliceAny(v) == TypeOf(v) = "[]any"
isString(v) == TypeOf(v) = "string"

\* the body of the loop over resources: <<found, attributes>> for one element
matchResource(res, id) ==
    IF ~isMapAny(res) THEN <<FALSE, <<>>>>
    ELSE LET resource == Payload(res)
             resourceType == index(resource, Key("type"))
         IN
         IF ~(isString(resourceType) /\ Payload(resourceType) = Key("aws_instance"))
         THEN <<FALSE, <<>>>>
         ELSE LET instances == index(resource, Key("instances")) IN
              IF ~isSliceAny(instances) \/ Len(Payload(instances)) = 0 THEN <<FALSE, <<>>>>
              ELSE LET first == Payload(instances)[1] IN
                   IF ~isMapAny(first) THEN <<FALSE, <<>>>>
                   ELSE LET attributes == index(Payload(first), Key("attributes")) IN
                        IF ~isMapAny(attributes) THEN <<FALSE, <<>>>>
                        ELSE LET idv == index(Payload(attributes), Key("id")) IN
                             IF isString(idv) /\ Payload(idv) = id
                             THEN <<TRUE, Payload(attributes)>>
                             ELSE <<FALSE, <<>>>>

\* the loop over resources: the first element that matches, or not found
RECURSIVE findInstance(_, _)
findInstance(resources, id) ==
    IF resources = <<>>
    THEN <<<<>>, ErrorOf("instance not found in Terraform state")>>
    ELSE LET m == matchResource(Head(resources), id) IN
         IF m[1] THEN <<m[2], Nil>> ELSE findInstance(Tail(resources), id)

\* ParseStateFile(filepath, instanceID) on a file that opens and decodes as
\* `file` says: <<attributes, err>>, the nil map being <<>>
ParseStateFile(file, filepath, id) ==
    IF filepath = <<>> \/ id = <<>>
    THEN <<<<>>, ErrorOf("filepath and instanceID must not be empty")>>
    ELSE IF file = OpenError THEN <<<<>>, ErrorOf("failed to open state file")>>
    ELSE IF file = DecodeError \/ ~isMapAny(file)
    THEN <<<<>>, ErrorOf("failed to parse state file")>>
    ELSE LET resources == index(Payload(file), Key("resources")) IN
         IF ~isSliceAny(resources)
         THEN <<<<>>, ErrorOf("invalid state file: resources not found or invalid format")>>
         ELSE findInstance(Payload(resources), id)

\* the identifiers, instance objects, resources and documents of a state file
StateIds == {Key("i-1"), Key("i-2")}
StateAttributes ==
    {(Key("id") :> String(i)) @@ (Key("ami") :> String(a)) :
        i \in StateIds, a \in {Key("ami-1")}}
    \cup {(Key("id") :> Float64(1))}
StateInstances ==
    {MapAny((Key("attributes") :> MapAny(a))) : a \in StateAttributes}
    \cup {MapAny(<<>>)}
StateResources ==
    {MapAny((Key("type") :> String(t)) @@ (Key("instances") :> SliceAny(l))) :
        t \in {Key("aws_instance"), Key("aws_eip")},
        l \in SeqsUpTo(StateInstances, MaxInstances)}
    \cup {MapAny((Key("type") :> String(Key("aws_instance")))), String(Key("x"))}
StateFiles ==
    {OpenError, DecodeError, MapAny(<<>>),
     MapAny((Key("resources") :> String(Key("x"))))}
    \cup {MapAny((Key("resources") :> SliceAny(l))) : l \in SeqsUpTo(StateResources, MaxResources)}

\* ParseStateFile(psPath, psId) is called and returns
ParseStateFileCall ==
    /\ psPc = "call"
    /\ psResult' = ParseStateFile(psFile, psPath, psId)[1]
    /\ psErr' = ParseStateFile(psFile, psPath, psId)[2]
    /\ psPc' = "done"
    /\ UNCHANGED <<psFile, psPath, psId>>

\* a call of ParseStateFile with any path and identifier on any file
InitParse ==
    /\ psFile \in StateFiles
    /\ psPath \in {<<>>, <<"terraform", ".", "tfstate">>}
    /\ psId \in StateIds \cup {<<>>}
    /\ psPc = "call"
    /\ psResult = <<>>
    /\ psErr = Nil
    /\ CmpIdle
    /\ DetIdle
    /\ NestIdle
    /\ PoolIdle
    /\ StartIdle
    /\ MapIdle
    /\ CacheIdle
    /\ FormatIdle
    /\ FetchIdle

\* the variables ParseStateFile leaves alone
notParseVars ==
    <<cmpVars, detVars, nestVars, poolVars, startVars, mapVars, cacheVars, fmtVars, fetchVars>>

NextParse == ParseStateFileCall /\ UNCHANGED notParseVars

SpecParse == InitParse /\ [][NextParse]_vars

----------------------------------------------------------------------------
(* package output: FormatDriftResults, and DriftDetail.String *)
(* A returned text is the sequence of its lines; a line is a Go string.    *)

\* strings.ToLower, on the letters the format names are written with
Lower(c) ==
    CASE c = "J" -> "j" [] c = "S" -> "s" [] c = "O" -> "o" [] c = "N" -> "n"
      [] c = "Y" -> "y" [] c = "A" -> "a" [] c = "M" -> "m" [] c = "L" -> "l"
      [] c = "T" -> "t" [] c = "E" -> "e" [] c = "X" -> "x" [] OTHER -> c
ToLower(str) == [i \in DOMAIN str |-> Lower(str[i])]

\* %d and the %v of a float64, for one-digit numbers
Numeral(n) == <<"0", "1", "2", "3", "4", "5", "6", "7", "8", "9">>[n + 1]
\* %t
Sprintt(b) == IF b THEN "true" ELSE "false"
\* %v of a value held in a record
Sprintv(v) ==
    CASE TypeOf(v) = "nil" -> <<"<nil>">>
      [] TypeOf(v) = "string" -> Payload(v)
      [] TypeOf(v) = "bool" -> <<Sprintt(Payload(v))>>
      [] TypeOf(v) = "float64" -> <<Numeral(Payload(v))>>
\* json.Marshal of a value held in a record
Marshal(v) ==
    CASE TypeOf(v) = "nil" -> <<"null">>
      [] TypeOf(v) = "string" -> <<"\"">> \o Payload(v) \o <<"\"">>
      [] TypeOf(v) = "bool" -> <<Sprintt(Payload(v))>>
      [] TypeOf(v) = "float64" -> <<Numeral(Payload(v))>>
\* time.Time.Format: the layout and the second it is called in decide the text
FormatTime(layout, now) == <<layout, " of ", now>>

\* the concatenation of a sequence of line sequences
RECURSIVE Flatten(_)
Flatten(ss) == IF ss = <<>> THEN <<>> ELSE Head(ss) \o Flatten(Tail(ss))

\* the lines of one record in formatText with the last two cases exchanged
textDetail_ExchangedSides(detail) ==
    << <<"--- ">> \o detail.Attribute \o <<" ---">> >>
    \o (IF detail.InAWS /\ detail.InTerraform
        THEN << <<"Status: Values differ between AWS and Terraform">>,
                <<"AWS value: ">> \o Sprintv(detail.AWSValue),
                <<"Terraform value: ">> \o Sprintv(detail.TerraformValue) >>
        ELSE IF detail.InAWS
        THEN << <<"Status: Exists in Terraform but not in AWS">>,
                <<"Terraform value: ">> \o Sprintv(detail.TerraformValue) >>
        ELSE << <<"Status: Exists in AWS but not in Terraform">>,
                <<"AWS value: ">> \o Sprintv(detail.AWSValue) >>)
    \o << <<>> >>

\* the lines formatText writes for one record
textDetail(detail) ==
    << <<"--- ">> \o detail.Attribute \o <<" ---">> >>
    \o (IF detail.InAWS /\ detail.InTerraform
        THEN << <<"Status: Values differ between AWS and Terraform">>,
                <<"AWS value: ">> \o Sprintv(detail.AWSValue),
                <<"Terraform value: ">> \o Sprintv(detail.TerraformValue) >>
        ELSE IF detail.InAWS
        THEN << <<"Status: Exists in AWS but not in Terraform">>,
                <<"AWS value: ">> \o Sprintv(detail.AWSValue) >>
        ELSE << <<"Status: Exists in Terraform but not in AWS">>,
                <<"Terraform value: ">> \o Sprintv(detail.TerraformValue) >>)
    \o << <<>> >>

\* formatText; order is the order in which range visits the map's keys
formatText(ds, id, order, now) ==
    LET head == << <<"Drift Detection Results for EC2 Instance: ">> \o id, <<>> >> IN
    IF DOMAIN ds = {}
    THEN head \o << <<"No configuration drift detected! AWS and Terraform configurations are in sync.">> >>
    ELSE head
         \o << <<"Found ", Numeral(Cardinality(DOMAIN ds)),
                 " attributes with configuration drift:">>, <<>> >>
         \o Flatten([i \in DOMAIN order |-> textDetail(ds[order[i]])])
         \o << <<>>, <<"Detection completed at: ">> \o FormatTime("RFC1123", now) >>

\* the lines formatYAML writes for one entry
yamlDetail(attr, detail) ==
    << <<"  ">> \o attr \o <<":">>,
       <<"    in_aws: ", Sprintt(detail.InAWS)>>,
       <<"    in_terraform: ", Sprintt(detail.InTerraform)>> >>
    \o (IF detail.InAWS
        THEN << <<"    aws_value: \"">> \o Sprintv(detail.AWSValue) \o <<"\"">> >>
        ELSE <<>>)
    \o (IF detail.InTerraform
        THEN << <<"    terraform_value: \"">> \o Sprintv(detail.TerraformValue) \o <<"\"">> >>
        ELSE <<>>)

\* formatYAML
formatYAML(ds, id, order, now) ==
    << <<"instance_id: ">> \o id,
       <<"drift_found: ", Sprintt(DOMAIN ds # {})>>,
       <<"drift_count: ", Numeral(Cardinality(DOMAIN ds))>>,
       <<"time_detected: ">> \o FormatTime("RFC3339", now) >>
    \o (IF DOMAIN ds # {}
        THEN << <<"drifts:">> >>
             \o Flatten([i \in DOMAIN order |-> yamlDetail(order[i], ds[order[i]])])
        ELSE <<>>)

\* the attribute names in the order encoding/json sorts map keys
SortedAttributes == <<Key("ami"), Key("tags")>>
InDrifts(ds) == LET Test(a) == a \in DOMAIN ds IN SelectSeq(SortedAttributes, Test)

\* the lines json.MarshalIndent writes for one entry of the Drifts map
jsonDetail(attr, detail, last) ==
    << <<"    \"">> \o attr \o <<"\": {">>,
       <<"      \"Attribute\": \"">> \o detail.Attribute \o <<"\",">>,
       <<"      \"InAWS\": ", Sprintt(detail.InAWS), ",">>,
       <<"      \"InTerraform\": ", Sprintt(detail.InTerraform), ",">>,
       <<"      \"AWSValue\": ">> \o Marshal(detail.AWSValue) \o <<",">>,
       <<"      \"TerraformValue\": ">> \o Marshal(detail.TerraformValue),
       IF last THEN <<"    }">> ELSE <<"    },">> >>

\* formatJSON
formatJSON(ds, id, now) ==
    LET keys == InDrifts(ds) IN
    << <<"{">>,
       <<"  \"instance_id\": \"">> \o id \o <<"\",">>,
       <<"  \"drift_found\": ", Sprintt(DOMAIN ds # {}), ",">>,
       <<"  \"drift_count\": ", Numeral(Cardinality(DOMAIN ds)), ",">> >>
    \o (IF keys = <<>>
        THEN << <<"  \"drifts\": {},">> >>
        ELSE << <<"  \"drifts\": {">> >>
             \o Flatten([i \in DOMAIN keys |-> jsonDetail(keys[i], ds[keys[i]], i = Len(keys))])
             \o << <<"  },">> >>)
    \o << <<"  \"time_detected\": \"">> \o FormatTime("RFC3339", now) \o <<"\"">>,
          <<"}">> >>

\* FormatDriftResults, called in the second `now` with a map that range
\* visits in the order `order`
FormatDriftResults(ds, id, format, order, now) ==
    IF ToLower(format) = <<"j", "s", "o", "n">> THEN formatJSON(ds, id, now)
    ELSE IF ToLower(format) = <<"y", "a", "m", "l">> THEN formatYAML(ds, id, order, now)
    ELSE formatText(ds, id, order, now)

\* DriftDetail.String
DriftDetailString(d) ==
    << <<"Attribute: ">> \o d.Attribute >>
    \o (IF d.InAWS /\ d.InTerraform
        THEN << <<"Status: Values differ between AWS and Terraform">>,
                <<"AWS value: ">> \o Sprintv(d.AWSValue),
                <<"Terraform value: ">> \o Sprintv(d.TerraformValue) >>
        ELSE IF d.InAWS
        THEN << <<"Status: Exists in AWS but not in Terraform">>,
                <<"AWS value: ">> \o Sprintv(d.AWSValue) >>
        ELSE << <<"Status: Exists in Terraform but not in AWS">>,
                <<"Terraform value: ">> \o Sprintv(d.TerraformValue) >>)

\* the orders in which range can visit the keys of a map
RangeOrders(m) ==
    {o \in [1..Cardinality(DOMAIN m) -> DOMAIN m] :
        \A i, j \in DOMAIN o : o[i] = o[j] => i = j}
\* the seconds a call can fall in
Seconds == {"second 1", "second 2"}
\* the format names a caller passes
Formats == {<<"t", "e", "x", "t">>, <<"j", "s", "o", "n">>, <<"J", "S", "O", "N">>,
            <<"y", "a", "m", "l">>, <<"x", "m", "l">>}

\* the records DetectDrift makes for an attribute: found on both sides with
\* different values, found in AWS only, found in Terraform only
DriftRecords(attr) ==
    {DriftDetail(attr, TRUE, TRUE, a, String(StrB)) : a \in {String(StrA), Nil}}
    \cup {DriftDetail(attr, TRUE, FALSE, a, Nil) : a \in {String(StrA), Nil}}
    \cup {DriftDetail(attr, FALSE, TRUE, Nil, t) : t \in {String(StrB), Float64(8)}}
\* the maps DetectDrift returns over the attributes ami and tags
DriftMaps ==
    UNION {{m \in [D -> UNION {DriftRecords(a) : a \in D}] :
               \A a \in D : m[a] \in DriftRecords(a)} : D \in SUBSET {SortedAttributes[i] : i \in DOMAIN SortedAttributes}}

\* FormatDriftResults(fmtDrifts, fmtId, fmtFormat) is called and returns
FormatDriftResultsCall ==
    /\ fmtPc \in {"first", "second"}
    /\ \E order \in RangeOrders(fmtDrifts), now \in Seconds :
          IF fmtPc = "first"
          THEN /\ fmtOut1' = FormatDriftResults(fmtDrifts, fmtId, fmtFormat, order, now)
               /\ fmtPc' = "second"
               /\ UNCHANGED fmtOut2
          ELSE /\ fmtOut2' = FormatDriftResults(fmtDrifts, fmtId, fmtFormat, order, now)
               /\ fmtPc' = "done"
               /\ UNCHANGED fmtOut1
    /\ UNCHANGED <<fmtDrifts, fmtId, fmtFormat, strRec, strPc, strOut>>

\* strRec.String() is called and returns
DriftDetailStringCall ==
    /\ strPc = "call"
    /\ strOut' = DriftDetailString(strRec)
    /\ strPc' = "done"
    /\ UNCHANGED <<fmtDrifts, fmtId, fmtFormat, fmtPc, fmtOut1, fmtOut2, strRec>>

\* two calls of FormatDriftResults with the same arguments, and one call of
\* String on a record, are about to be made
InitFormat ==
    /\ fmtDrifts \in DriftMaps
    /\ fmtId = Key("i-12345")
    /\ fmtFormat \in Formats
    /\ fmtPc = "first"
    /\ fmtOut1 = <<>>
    /\ fmtOut2 = <<>>
    /\ strRec \in DriftRecords(Key("ami"))
    /\ strPc = "call"
    /\ strOut = <<>>
    /\ CmpIdle
    /\ DetIdle
    /\ NestIdle
    /\ PoolIdle
    /\ StartIdle
    /\ MapIdle
    /\ CacheIdle
    /\ ParseIdle
    /\ FetchIdle

\* the variables the formatters leave alone
notFormatVars ==
    <<cmpVars, detVars, nestVars, poolVars, startVars, mapVars, cacheVars, parseVars, fetchVars>>

NextFormat ==
    \/ FormatDriftResultsCall /\ UNCHANGED notFormatVars
    \/ DriftDetailStringCall /\ UNCHANGED notFormatVars

SpecFormat == InitFormat /\ [][NextFormat]_vars

----------------------------------------------------------------------------
(* Client.GetEC2InstanceConfig: DescribeInstances under backoff.Retry, then *)
(* mapInstanceToConfig with one DescribeVolumes per EBS mapping             *)

\* an API call as the log keeps it: the operation, the context it was issued
\* with, whether that context was cancelled when it was issued, and whether
\* it succeeded
ApiCall(api, ctx, done, ok) == [api |-> api, ctx |-> ctx, done |-> done, ok |-> ok]

\* what DescribeInstances can answer when it succeeds: no reservation, a
\* reservation without instances, or an instance
DescribeAnswers ==
    {[kind |-> "no reservation"], [kind |-> "no instance"]}
    \cup {[kind |-> "instance", instance |-> i] : i \in Instances}

\* ExponentialBackOff.NextBackOff that stops after the first failure
stops_AfterFirstFailure(elapsed, next) == TRUE

\* ExponentialBackOff.NextBackOff returns Stop: the next interval would end
\* after MaxElapsedTime
stops(elapsed, next) == elapsed + next > MaxElapsed

\* len(resp.Reservations) == 0 || len(resp.Reservations[0].Instances) == 0
notFound(resp) == resp.kind \in {"no reservation", "no instance"}

\* the block device mappings the loop of mapInstanceToConfig runs over
fMappings == IF fResp # <<>> /\ fResp.kind = "instance" THEN fResp.instance.BlockDeviceMappings ELSE <<>>

\* the interrupt arrives: the command's context is cancelled
CancelSignal ==
    /\ fCtx = "live"
    /\ fPc \notin {"idle", "returned"}
    /\ fCtx' = "cancelled"
    /\ UNCHANGED <<fPc, fElapsed, fResp, fCalls, fVolIdx, fLookup, fConfig, fErr>>

\* the operation of backoff.Retry: DescribeInstances(ctx, ...) is issued with
\* the context GetEC2InstanceConfig was given and returns; with that context
\* cancelled it returns an error
DescribeInstances ==
    /\ fPc = "attempt"
    /\ \E ok \in (IF fCtx = "cancelled" THEN {FALSE} ELSE BOOLEAN) :
          /\ fCalls' = Append(fCalls, ApiCall("DescribeInstances", "command", fCtx = "cancelled", ok))
          /\ IF ok
             THEN /\ \E resp \in DescribeAnswers : fResp' = resp
                  /\ fPc' = "check"
             ELSE /\ fResp' = <<>>
                  /\ fPc' = "backoff"
    /\ UNCHANGED <<fCtx, fElapsed, fVolIdx, fLookup, fConfig, fErr>>

\* backoff.Retry after a failed attempt: NextBackOff either stops the
\* retries, and GetEC2InstanceConfig returns the error, or gives the time to
\* wait before the next attempt.  Retry was given no context, so it does not
\* look at the command's
NextBackOff ==
    /\ fPc = "backoff"
    /\ \E next \in 1..MaxInterval :
          IF stops(fElapsed, next)
          THEN /\ fConfig' = <<>>
               /\ fErr' = ErrorOf("error describing instance")
               /\ fPc' = "returned"
               /\ UNCHANGED fElapsed
          ELSE /\ fElapsed' = fElapsed + next
               /\ fPc' = "attempt"
               /\ UNCHANGED <<fConfig, fErr>>
    /\ UNCHANGED <<fCtx, fResp, fCalls, fVolIdx, fLookup>>

\* after Retry returned nil: the not-found test on the response
CheckResponse ==
    /\ fPc = "check"
    /\ IF notFound(fResp)
       THEN /\ fConfig' = <<>>
            /\ fErr' = ErrorOf("instance not found")
            /\ fPc' = "returned"
            /\ UNCHANGED fVolIdx
       ELSE /\ fVolIdx' = 1
            /\ fPc' = "volumes"
            /\ UNCHANGED <<fConfig, fErr>>
    /\ UNCHANGED <<fCtx, fElapsed, fResp, fCalls, fLookup>>

\* one iteration of mapInstanceToConfig's loop over the mappings: for an EBS
\* mapping getVolumeInfo issues DescribeVolumes with context.Background()
VolumeLookup ==
    /\ fPc = "volumes"
    /\ fVolIdx <= Len(fMappings)
    /\ LET bdm == fMappings[fVolIdx] IN
       IF bdm.Ebs = NilPtr
       THEN UNCHANGED <<fCalls, fLookup>>
       ELSE \E answer \in VolumeAnswers :
               /\ fCalls' = Append(fCalls, ApiCall("DescribeVolumes", "background", FALSE,
                                                   answer.kind # "error"))
               /\ fLookup' = (awsToString(bdm.Ebs[2].VolumeId) :> answer) @@ fLookup
    /\ fVolIdx' = fVolIdx + 1
    /\ UNCHANGED <<fCtx, fPc, fElapsed, fResp, fConfig, fErr>>

\* mapInstanceToConfig returns the tree, and GetEC2InstanceConfig with it
FetchReturn ==
    /\ fPc = "volumes"
    /\ fVolIdx > Len(fMappings)
    /\ fConfig' = mapInstanceToConfig(fResp.instance, fLookup)[1]
    /\ fErr' = mapInstanceToConfig(fResp.instance, fLookup)[2]
    /\ fPc' = "returned"
    /\ UNCHANGED <<fCtx, fElapsed, fResp, fCalls, fVolIdx, fLookup>>

\* a worker has called GetEC2InstanceConfig(cmd.Context(), instanceID)
InitFetch ==
    /\ fCtx = "live"
    /\ fPc = "attempt"
    /\ fElapsed = 0
    /\ fResp = <<>>
    /\ fCalls = <<>>
    /\ fVolIdx = 0
    /\ fLookup = <<>>
    /\ fConfig = <<>>
    /\ fErr = Nil
    /\ CmpIdle
    /\ DetIdle
    /\ NestIdle
    /\ PoolIdle
    /\ StartIdle
    /\ MapIdle
    /\ CacheIdle
    /\ ParseIdle
    /\ FormatIdle

\* the variables GetEC2InstanceConfig leaves alone
notFetchVars ==
    <<cmpVars, detVars, nestVars, poolVars, startVars, mapVars, cacheVars, parseVars, fmtVars>>

\* a step of GetEC2InstanceConfig itself
FetchStep ==
    \/ DescribeInstances
    \/ NextBackOff
    \/ CheckResponse
    \/ VolumeLookup
    \/ FetchReturn

NextFetch ==
    \/ CancelSignal /\ UNCHANGED notFetchVars
    \/ DescribeInstances /\ UNCHANGED notFetchVars
    \/ NextBackOff /\ UNCHANGED notFetchVars
    \/ CheckResponse /\ UNCHANGED notFetchVars
    \/ VolumeLookup /\ UNCHANGED notFetchVars
    \/ FetchReturn /\ UNCHANGED notFetchVars

SpecFetch == InitFetch /\ [][NextFetch]_vars

\* the goroutine that runs GetEC2InstanceConfig is scheduled again and again
\* and every API call it issues returns
SpecFetchFair == SpecFetch /\ WF_vars(FetchStep /\ UNCHANGED notFetchVars)

----------------------------------------------------------------------------
(* Claims about DetectDrift, checked under Spec *)

Range(f) == {f[i] : i \in DOMAIN f}
Found(tree, p) == getNestedValue(tree, p)[2]
Resolved(tree, p) == getNestedValue(tree, p)[1]

\* the two trees disagree on path p: on its presence or on its value
Disagree(p) ==
    \/ Found(awsConfig, p) /= Found(tfConfig, p)
    \/ /\ Found(awsConfig, p)
       /\ Found(tfConfig, p)
       /\ ~compareValues(Resolved(awsConfig, p), Resolved(tfConfig, p))

\* C1: the result of DetectDrift has a record under p if and only if p is in
\* the checklist and p resolves in exactly one of the two trees, or in both
\* with values that compareValues finds unequal; a path that resolves in
\* neither tree, or in both with equal values, has no record.
C1_RecordIffDisagree ==
    detPc = "done" =>
        \A p \in Paths :
            (p \in DOMAIN drifts) <=>
                (p \in Range(attributesToCheck) /\ Disagree(p))

\* C1 witness: a checklist of two attributes that both resolve in both trees,
\* one with unequal values (recorded) and one with equal values (silent).
C1_Witness ==
    /\ detPc = "done"
    /\ \E p, q \in Range(attributesToCheck) :
          /\ p \in DOMAIN drifts
          /\ q \notin DOMAIN drifts
          /\ Found(awsConfig, p) /\ Found(tfConfig, p)
          /\ Found(awsConfig, q) /\ Found(tfConfig, q)

\* C2: every record stored under key k carries k as its Attribute, presence
\* flags equal to the two resolutions of k, on each side the resolved value
\* where k resolved and nil where it did not; no record has both flags false.
C2_RecordReflectsResolution ==
    detPc = "done" =>
        \A k \in DOMAIN drifts :
            LET r == drifts[k]
            IN  /\ r.Attribute = k
                /\ r.InAWS = Found(awsConfig, k)
                /\ r.InTerraform = Found(tfConfig, k)
                /\ r.AWSValue = (IF Found(awsConfig, k)
                                 THEN Resolved(awsConfig, k) ELSE Nil)
                /\ r.TerraformValue = (IF Found(tfConfig, k)
                                       THEN Resolved(tfConfig, k) ELSE Nil)
                /\ (r.InAWS \/ r.InTerraform)

\* C2 witness: a result with one record for an attribute only AWS has and one
\* for an attribute only Terraform has, each with a value that is not nil.
C2_Witness ==
    /\ detPc = "done"
    /\ \E j, k \in DOMAIN drifts :
          /\ drifts[j].InAWS /\ ~drifts[j].InTerraform
          /\ drifts[j].AWSValue /= Nil
          /\ ~drifts[k].InAWS /\ drifts[k].InTerraform
          /\ drifts[k].TerraformValue /= Nil

\* C3: the keys of the result are a subset of the checklist, and an empty
\* checklist gives an empty result whatever the trees hold.
C3_KeysWithinChecklist ==
    detPc = "done" =>
        /\ DOMAIN drifts \subseteq Range(attributesToCheck)
        /\ (attributesToCheck = <<>> => drifts = <<>>)

\* C3 witness: the trees disagree on an attribute that is not in the
\* checklist, the checklist's own attribute is recorded, the other is not.
C3_Witness ==
    /\ detPc = "done"
    /\ DOMAIN drifts /= {}
    /\ \E p \in Paths \ Range(attributesToCheck) :
          Disagree(p) /\ p \notin DOMAIN drifts

----------------------------------------------------------------------------
(* Claims about compareValues, checked under SpecCompare *)

\* the elements of a list value and the entries of a map value, as generic
\* values whichever of the two Go types stores them
ElementsOf(v) ==
    IF TypeOf(v) = "[]string"
    THEN [i \in 1..Len(Payload(v)) |-> String(Payload(v)[i])]
    ELSE Payload(v)
EntriesOf(v) ==
    IF TypeOf(v) = "map[string]string"
    THEN [k \in DOMAIN Payload(v) |-> String(Payload(v)[k])]
    ELSE Payload(v)

IndexPermutations(n) == {f \in [1..n -> 1..n] : \A i, j \in 1..n : f[i] = f[j] => i = j}
Permuted(s, f) == [i \in 1..Len(s) |-> s[f[i]]]

\* a one-to-one matching of the elements of a with equal elements of b
ExistsMatching(a, b) ==
    /\ Len(a) = Len(b)
    /\ \E f \in IndexPermutations(Len(a)) :
          \A i \in 1..Len(a) : compareValues(a[i], b[f[i]])

\* the tag of the spec's ConfigValue union a Go value stands for
Kind(v) ==
    CASE TypeOf(v) = "nil" -> "Null"
      [] TypeOf(v) = "bool" -> "Bool"
      [] TypeOf(v) = "string" -> "String"
      [] TypeOf(v) = "float64" \/ TypeOf(v) \in IntTypes -> "Number"
      [] TypeOf(v) \in {"[]any", "[]string"} -> "List"
      [] TypeOf(v) \in {"map[string]any", "map[string]string"} -> "Map"

BothLists == Kind(v1) = "List" /\ Kind(v2) = "List"
BothMaps == Kind(v1) = "Map" /\ Kind(v2) = "Map"

\* C4: two lists compare equal if and only if they have the same length and
\* a one-to-one matching pairs every element of the first with a distinct,
\* equal element of the second (Null elements included).
C4_ListsEqualIffMatching ==
    (cmpPc = "done" /\ BothLists) =>
        (cmpResult <=> ExistsMatching(ElementsOf(v1), ElementsOf(v2)))

\* C5: list equality is order-independent: permuting the elements of either
\* list never changes the result of compareValues.
C5_ListOrderIndependent ==
    (cmpPc = "done" /\ BothLists) =>
        \A f \in IndexPermutations(Len(ElementsOf(v1))) :
            \A g \in IndexPermutations(Len(ElementsOf(v2))) :
                compareValues(SliceAny(Permuted(ElementsOf(v1), f)),
                              SliceAny(Permuted(ElementsOf(v2), g))) = cmpResult

\* C6: compareValues is symmetric: exchanging the two arguments gives the
\* same result.
C6_Symmetric ==
    cmpPc = "done" => (cmpResult = compareValues(v2, v1))

\* C7: compareValues is reflexive: every value compares equal to itself.
C7_Reflexive ==
    (cmpPc = "done" /\ v1 = v2) => cmpResult

\* C7 witness: a list of lists with a duplicated element and a Null element
\* inside has been compared with itself.
C7_Witness ==
    /\ cmpPc = "done"
    /\ v1 = v2
    /\ v1 = SliceAny(<<SliceAny(<<String(StrA), Nil>>), SliceAny(<<String(StrA), Nil>>)>>)
    /\ cmpResult

\* C8: two maps compare equal if and only if they have the same key set and
\* the values under every key compare equal, whether the maps store generic
\* values or plain strings.
C8_MapsEqualIffSameKeysAndValues ==
    (cmpPc = "done" /\ BothMaps) =>
        (cmpResult <=>
            /\ DOMAIN EntriesOf(v1) = DOMAIN EntriesOf(v2)
            /\ \A k \in DOMAIN EntriesOf(v1) :
                  compareValues(EntriesOf(v1)[k], EntriesOf(v2)[k]))

\* C8 witness: a string-valued map compared with a generic map that has one
\* more key and equal values under the shared key; they are unequal.
C8_Witness ==
    /\ cmpPc = "done"
    /\ TypeOf(v1) = "map[string]string"
    /\ TypeOf(v2) = "map[string]any"
    /\ DOMAIN Payload(v1) = {StrA}
    /\ DOMAIN Payload(v2) = {StrA, StrB}
    /\ compareValues(String(Payload(v1)[StrA]), Payload(v2)[StrA])
    /\ ~cmpResult

\* the same number n stored in two numeric encodings, at least one of them
\* an integer type
SameNumber(x, y) ==
    /\ TypeOf(x) \in IntTypes
    /\ TypeOf(y) \in IntTypes \cup {"float64"}
    /\ Payload(x) = Payload(y)

\* C9: an integer n of any integer type compares equal to the float64 n and
\* to n in any other integer type.
C9_EveryIntegerTypeWidens ==
    (cmpPc = "done" /\ (SameNumber(v1, v2) \/ SameNumber(v2, v1))) => cmpResult

\* C10: values of different tags never compare equal, and Null compares
\* equal to Null.
C10_NoCrossTagEquality ==
    cmpPc = "done" =>
        /\ (Kind(v1) /= Kind(v2) => ~cmpResult)
        /\ (v1 = Nil /\ v2 = Nil => cmpResult)

\* C10 witness: the number 8 has been compared with the text "8" and found
\* unequal.
C10_Witness ==
    /\ cmpPc = "done"
    /\ v1 = Integer("int", 8)
    /\ v2 = String(Str8)
    /\ ~cmpResult

----------------------------------------------------------------------------
(* Claims about getNestedValue, checked under SpecResolve and Spec *)

IsMap(v) == TypeOf(v) \in {"map[string]any", "map[string]string"}

\* every segment but the last names a key of the current map whose value is
\* a map, and the last segment is a key of the map reached
RECURSIVE WalkFinds(_, _)
WalkFinds(m, segs) ==
    /\ Head(segs) \in DOMAIN m
    /\ (Len(segs) > 1 =>
           /\ IsMap(m[Head(segs)])
           /\ WalkFinds(EntriesOf(m[Head(segs)]), Tail(segs)))

\* the value stored under the last segment in the map reached
RECURSIVE WalkValue(_, _)
WalkValue(m, segs) ==
    IF Len(segs) = 1 THEN m[Head(segs)]
    ELSE WalkValue(EntriesOf(m[Head(segs)]), Tail(segs))

WalkResult(m, path) ==
    IF WalkFinds(m, Split(path)) THEN <<WalkValue(m, Split(path)), TRUE>>
    ELSE <<Nil, FALSE>>

\* C11 as stated: getNestedValue returns (v, true) exactly when the walk
\* along the segments of the path finds the last key, v being the value
\* stored there, and (nil, false) otherwise, for every path.
C11_ResolvesExactlyWhenWalkFinds ==
    nestPc = "done" => nestResult = WalkResult(nestData, nestPath)

\* C11 amended: for every path that is not empty getNestedValue returns
\* (v, true) exactly when the walk along the segments finds the last key
\* (a stored nil counts as found) and (nil, false) otherwise; for the empty
\* path it returns (nil, false) even when the tree has the key "".
C11_ResolvesNonEmptyPath ==
    nestPc = "done" =>
        nestResult = (IF nestPath = <<>> THEN <<Nil, FALSE>>
                      ELSE WalkResult(nestData, nestPath))

\* C11 witness: a path of three segments has resolved, through two nested
\* maps, to a stored nil.
C11_Witness ==
    /\ nestPc = "done"
    /\ Len(Split(nestPath)) = 3
    /\ nestResult = <<Nil, TRUE>>

\* C12: DetectDrift returns a nil error, and for every path of the
\* checklist, the empty path and paths with empty segments included,
\* getNestedValue gives on both trees a pair of a value and a flag, a nil
\* value when the flag is false, and never finds the empty path.
C12_NoErrorOutcome ==
    detPc = "done" =>
        /\ detErr = Nil
        /\ \A p \in Range(attributesToCheck) : \A tree \in {awsConfig, tfConfig} :
              /\ Found(tree, p) \in BOOLEAN
              /\ (~Found(tree, p) => Resolved(tree, p) = Nil)
              /\ (p = <<>> => ~Found(tree, p))
              /\ (~Found(awsConfig, p) /\ ~Found(tfConfig, p) => p \notin DOMAIN drifts)

\* C12 witness: DetectDrift has returned for a checklist holding the empty
\* path and a path with a trailing dot, on a tree that has the key "" and a
\* tree where the path runs into a scalar.
C12_Witness ==
    /\ detPc = "done"
    /\ attributesToCheck = <<StrEmpty, <<"a", ".">>>>
    /\ StrEmpty \in DOMAIN awsConfig
    /\ StrA \in DOMAIN tfConfig /\ ~IsMap(tfConfig[StrA])
    /\ drifts = <<>>

\* C13: DetectDrift leaves its inputs unchanged: after the call both trees,
\* at every depth, and the checklist are what they were before it.
C13_InputsUnchanged ==
    detPc = "done" =>
        /\ awsAfter = awsConfig
        /\ tfAfter = tfConfig
        /\ attrsAfter = attributesToCheck

\* C13 witness: DetectDrift has compared two equal lists stored in the trees
\* (an element was matched and marked) and followed a path that runs into
\* such a list.
C13_Witness ==
    /\ detPc = "done"
    /\ attributesToCheck = <<StrA, <<"a", ".", "b">>>>
    /\ awsConfig = (StrA :> SliceAny(<<String(StrA)>>))
    /\ tfConfig = (StrA :> SliceAny(<<String(StrA)>>))
    /\ drifts = <<>>

----------------------------------------------------------------------------
(* Claims about the drift command's worker pool, checked under SpecPool *)

\* every result sent so far, received or still in the channel
Delivered == received \o resultsChan
\* the workers whose goroutine has been started and has not ended
InFlightWorkers == {i \in Workers : InFlight(i)}
\* a step of the run itself, as opposed to the arrival of an interrupt
PoolStep ==
    \/ Dispatch
    \/ \E i \in Workers : WorkerFetch(i) \/ WorkerParse(i) \/ WorkerDetect(i) \/ WorkerRelease(i)
    \/ Collect
    \/ Finish

\* C14: a worker whose fetch or parse fails stops no other worker: while the
\* run is under way (limit at least 1) some step of it can always be taken,
\* when Run ends every worker has sent its result and the collector has
\* received one result per identifier, and the run ends in the fatal exit
\* exactly when one of the received results carries an error
C14_FailuresCollectedBeforeExit ==
    /\ (Running /\ maxConcurrency >= 1) => ENABLED PoolStep
    /\ ~Running =>
        /\ Len(received) = Len(instanceIDs)
        /\ \A i \in Workers : wPc[i] \in {"release", "exited"}
        /\ (runPc = "fatal") <=> (\E k \in DOMAIN received : received[k].err # "none")
\* a run that ended in the fatal exit after the collector received an error
\* result first and then the result of a worker that ran to its comparison
C14_Witness ==
    /\ runPc = "fatal"
    /\ \E j, k \in DOMAIN received :
        /\ j < k
        /\ received[j].err \in {"fetch", "parse"}
        /\ received[k].err = "none"

\* C15: in every interleaving no result is sent twice by one worker, every
\* result carries the identifier its worker was started with, and when Run
\* ends the collector has received exactly one result from each worker
C15_OneResultPerIdentifier ==
    /\ \A j, k \in DOMAIN Delivered : Delivered[j].from = Delivered[k].from => j = k
    /\ \A k \in DOMAIN Delivered : Delivered[k].instanceID = instanceIDs[Delivered[k].from]
    /\ ~Running =>
        /\ Len(received) = Len(instanceIDs)
        /\ {received[k].from : k \in DOMAIN received} = Workers
\* a finished run over different identifiers in which the second worker's
\* result was received before the first worker's
C15_Witness ==
    /\ ~Running
    /\ Len(instanceIDs) >= 2
    /\ instanceIDs[1] # instanceIDs[2]
    /\ received[1].from = 2
    /\ received[1].instanceID = instanceIDs[2]

\* C16: with a limit n >= 1, at most n workers are between acquiring a slot
\* and releasing it, and the pool channel holds one token for each of them
C16_AtMostNInFlight ==
    maxConcurrency >= 1 =>
        /\ Cardinality(InFlightWorkers) <= maxConcurrency
        /\ workerPool = Cardinality(InFlightWorkers)
\* the pool is full and the dispatch loop waits with an identifier left
C16_Witness ==
    /\ maxConcurrency = 2
    /\ runPc = "dispatch"
    /\ Cardinality(InFlightWorkers) = 2
    /\ dispatchIdx <= Len(instanceIDs)

\* C17: once the context is cancelled no worker that had not been dispatched
\* is started, and a worker already in flight is not killed: it reaches its
\* return only with its result delivered
C17_CancelStopsDispatch ==
    [][cancelled =>
        \A i \in Workers :
            /\ wPc[i] = "none" => wPc'[i] = "none"
            /\ (wPc[i] \in {"fetch", "parse", "detect"} /\ wPc'[i] \in {"release", "exited"}) =>
                  \E k \in DOMAIN Delivered' : Delivered'[k].from = i]_vars

----------------------------------------------------------------------------
(* Claims about the drift command's startup, checked under SpecStartup *)

\* the command line has been dealt with: cobra refused it or Run's startup ended
StartupOver == startPc \in {"usage", "fatal", "simulate", "dispatch"}
\* the run ended before the dispatch loop, so before any worker or fetch
StartupFailed == startPc \in {"usage", "fatal"} /\ runPc = "idle" /\ wPc = <<>>
\* the identifier list of the command line is missing or has no element
NoIdentifiers == argInstances \in {NotGiven, Given(<<>>)}

\* C18: a drift run given neither a state file path nor a config path, or an
\* empty identifier list, fails at startup, before any worker is started
C18_FailsAtStartup ==
    (StartupOver /\ ((argState = "" /\ argConfig = "") \/ NoIdentifiers)) => StartupFailed
\* Run was called for one identifier with neither path and ended at a
\* logger.Fatal call
C18_Witness ==
    /\ startPc = "fatal"
    /\ argInstances = Given(<<"i-1">>)
    /\ argState = "" /\ argConfig = ""
    /\ ~argSimulate
    /\ clientOk

\* C19: invoked with a non-empty --instances list and a state file or a
\* config directory (and a loadable AWS configuration), the drift command
\* passes the startup checks and reaches the dispatch loop
C19_DocumentedInvocationDispatches ==
    (/\ StartupOver
     /\ argInstances \notin {NotGiven, Given(<<>>)}
     /\ (argState # "" \/ argConfig # "")
     /\ ~argSimulate
     /\ clientOk) => startPc = "dispatch"

----------------------------------------------------------------------------
(* Claims about mapInstanceToConfig, checked under SpecMap *)

HasEbs(bdm) == bdm.Ebs # NilPtr
\* the instance's mappings that have an EBS volume, in order
EbsMappings == SelectSeq(instance.BlockDeviceMappings, HasEbs)
\* the lookup of this mapping's volume fails
LookupFails(bdm) == volumeLookup[awsToString(bdm.Ebs[2].VolumeId)].kind # "volume"
BaseKeys == {Key("device_name"), Key("volume_id"), Key("delete_on_termination")}
VolumeKeys == {Key("volume_size"), Key("volume_type"), Key("encrypted")}

\* C20: for an instance with n EBS mappings mapInstanceToConfig returns a
\* nil error whichever lookups fail, the ebs_block_device list has n entries,
\* each with the mapping's device_name, volume_id and delete_on_termination;
\* an entry whose lookup failed has no other key, and an entry whose lookup
\* succeeded has volume_size, volume_type and encrypted as well (and iops at most)
C20_PartialVolumeFailuresTolerated ==
    mapPc = "done" =>
        /\ mapErr = Nil
        /\ Key("ebs_block_device") \in DOMAIN mapConfig
        /\ LET list == Payload(mapConfig[Key("ebs_block_device")]) IN
            /\ Len(list) = Len(EbsMappings)
            /\ \A k \in DOMAIN list :
                /\ BaseKeys \subseteq DOMAIN list[k]
                /\ list[k][Key("device_name")] = String(awsToString(EbsMappings[k].DeviceName))
                /\ list[k][Key("volume_id")] = String(awsToString(EbsMappings[k].Ebs[2].VolumeId))
                /\ list[k][Key("delete_on_termination")]
                       = Bool(EbsMappings[k].Ebs[2].DeleteOnTermination = Ptr(TRUE))
                /\ IF LookupFails(EbsMappings[k])
                   THEN DOMAIN list[k] = BaseKeys
                   ELSE /\ VolumeKeys \subseteq DOMAIN list[k]
                        /\ DOMAIN list[k] \subseteq BaseKeys \cup VolumeKeys \cup {Key("iops")}
\* mapInstanceToConfig has returned for an instance with two EBS mappings,
\* the lookup of the first volume failed and that of the second succeeded
C20_Witness ==
    /\ mapPc = "done"
    /\ Len(EbsMappings) = 2
    /\ LookupFails(EbsMappings[1])
    /\ ~LookupFails(EbsMappings[2])
    /\ Len(Payload(mapConfig[Key("ebs_block_device")])) = 2

----------------------------------------------------------------------------
(* Claims about the cache, checked under SpecCache *)

\* goroutine g is in a Get that has decided what to return and still holds
\* the read lock it looked the entry up under
GetDecided(g) == gOp[g].op = "Get" /\ gPc[g] \in {"runlock", "exp_runlock"}
\* goroutine g is in Get's path for an expired entry
GetOnExpiredPath(g) ==
    gPc[g] \in {"exp_runlock", "exp_lock", "exp_delete", "exp_unlock", "exp_rlock"}

\* C21: in every interleaving, a Get that returns (v, true) has found an
\* entry for its key that holds v, at a time not after the entry's
\* expiration; a Get that has found an expired entry returns (nil, false)
C21_GetReturnsOnlyLiveEntries ==
    \A g \in Goroutines :
        /\ (gPc[g] = "runlock" /\ gResult[g][2]) =>
              /\ gOp[g].key \in DOMAIN cData
              /\ cData[gOp[g].key].Value = gResult[g][1]
              /\ ~After(gNow[g], cData[gOp[g].key].Expiration)
        /\ gPc[g] = "exp_runlock" =>
              /\ gOp[g].key \in DOMAIN cData
              /\ After(gNow[g], cData[gOp[g].key].Expiration)
        /\ GetOnExpiredPath(g) => gResult[g] = <<Nil, FALSE>>
        /\ (GetDecided(g) /\ ~gResult[g][2]) => gResult[g][1] = Nil
\* one goroutine's Get is about to return a value it found at the very time
\* of its expiration while another's Get has found an expired entry
C21_Witness ==
    \E g, h \in Goroutines :
        /\ gPc[g] = "runlock" /\ gResult[g][2]
        /\ gNow[g] = cData[gOp[g].key].Expiration
        /\ gPc[h] = "exp_runlock"

\* C22: a Get that looks its key up when a Set of that key has completed, no
\* Set of the key, Delete of the key, Clear or Cleanup has run since, and the
\* time is not after the entry's expiration, returns the value that was set
C22_SetValueReadableUntilExpiry ==
    [][\A g \in Goroutines :
          (/\ gPc[g] = "read"
           /\ gPc'[g] # "read"
           /\ gOp[g].key \in DOMAIN settled
           /\ ~After(clock, settled[gOp[g].key].Expiration))
          => gResult'[g] = <<settled[gOp[g].key].Value, TRUE>>]_vars


\* goroutine g takes the step of its call that changes the entry map
Removes(g, name) == gPc[g] = "body" /\ gOp[g].op = name /\ gPc'[g] = "unlock"
\* the entries under the keys in K are the same before and after the step
Kept(K) == \A k \in K : k \in DOMAIN cData' /\ cData'[k] = cData[k]

\* C27: a removal touches only what it names.  The step of Delete(k) that
\* changes the map leaves k absent and every other entry as it was; that of
\* Clear leaves the map empty; that of Cleanup leaves exactly the entries
\* whose expiration has not passed, each as it was; and a Get that looks up
\* an absent key returns (nil, false)
C27_RemovalsTouchOnlyWhatTheyName ==
    [][\A g \in Goroutines :
          /\ Removes(g, "Delete")
                => /\ DOMAIN cData' = DOMAIN cData \ {gOp[g].key}
                   /\ Kept(DOMAIN cData \ {gOp[g].key})
          /\ Removes(g, "Clear") => DOMAIN cData' = {}
          /\ Removes(g, "Cleanup")
                => /\ DOMAIN cData' = {k \in DOMAIN cData : cData[k].Expiration >= clock}
                   /\ Kept({k \in DOMAIN cData : cData[k].Expiration >= clock})
          /\ (gPc[g] = "read" /\ gPc'[g] # "read" /\ gOp[g].key \notin DOMAIN cData)
                => gResult'[g] = <<Nil, FALSE>>]_vars

\* Cleanup has just swept a map from which a key is now absent while an
\* entry that has not expired is still there, and the other goroutine's Get
\* of the absent key is about to look it up
C27_Witness ==
    \E g, h \in Goroutines :
        /\ gPc[g] = "unlock" /\ gOp[g].op = "Cleanup"
        /\ \E k \in DOMAIN cData : cData[k].Expiration >= clock
        /\ gOp[h].op = "Get" /\ gPc[h] = "rlock" /\ gOp[h].key \notin DOMAIN cData
        /\ clock > 0


\* the goroutines that hold the mutex
Holders == writers \cup readers
\* where a call is while it holds the mutex for writing, and for reading
WritePoints == {"body", "unlock", "exp_delete", "exp_unlock"}
ReadPoints == {"read", "runlock", "exp_runlock"}
\* the statements that change the entry map
MapWrites == {"body", "exp_delete"}

\* C30: in every interleaving of Get, Set, Delete, Clear and Cleanup calls,
\* at most one goroutine holds the mutex for writing and then nobody holds
\* it for reading; a goroutine is about to change the entry map only while
\* it is the one writer; a call holds the write lock exactly between its
\* Lock and its Unlock and the read lock exactly between its RLock and its
\* RUnlock, so a goroutine outside a call, or in the gap of Get's path for
\* an expired entry, holds nothing; and a call under way is never stuck:
\* whoever holds the mutex can take its next step, and when nobody holds it
\* a waiting call can take it
C30_LockDisciplineSound ==
    /\ Cardinality(writers) <= 1
    /\ writers # {} => readers = {}
    /\ \A g \in Goroutines :
          /\ g \in writers <=> gPc[g] \in WritePoints
          /\ g \in readers <=> gPc[g] \in ReadPoints
          /\ gPc[g] \in MapWrites => writers = {g} /\ readers = {}
          /\ g \in Holders => ENABLED CacheStep(g)
          /\ (gPc[g] # "idle" /\ Holders = {}) => ENABLED CacheStep(g)

\* a Get on its path for an expired entry holds the write lock and is about
\* to delete, while the other goroutine's call waits for the mutex
C30_Witness ==
    \E g, h \in Goroutines :
        /\ gPc[g] = "exp_delete"
        /\ gPc[h] \in {"lock", "rlock", "exp_lock", "exp_rlock"}

----------------------------------------------------------------------------
(* Claims about ParseStateFile, checked under SpecParse *)

\* the elements of a []any value, and none for any other value
ItemsOf(v) == IF isSliceAny(v) THEN Range(Payload(v)) ELSE {}
\* the attribute maps of the aws_instance instances of the decoded state
\* whose attributes.id is the string id, at any position of any resource
MatchingAttributes(file, id) ==
    {Payload(index(Payload(inst), Key("attributes"))) :
        inst \in {i \in UNION {ItemsOf(index(Payload(res), Key("instances"))) :
                               res \in {r \in ItemsOf(index(Payload(file), Key("resources"))) :
                                           /\ isMapAny(r)
                                           /\ index(Payload(r), Key("type"))
                                                  = String(Key("aws_instance"))}} :
                     /\ isMapAny(i)
                     /\ isMapAny(index(Payload(i), Key("attributes")))
                     /\ index(Payload(index(Payload(i), Key("attributes"))), Key("id"))
                            = String(id)}}
\* the call was given a path and an identifier and the file decoded to a
\* document with a resources list
StateRead ==
    /\ psPath # <<>> /\ psId # <<>>
    /\ isMapAny(psFile)
    /\ isSliceAny(index(Payload(psFile), Key("resources")))

\* C23: ParseStateFile returns the attributes of an aws_instance instance
\* with the wanted id whenever the state has one, at any position of any
\* resource's instances list, and a not-found error exactly when it has none
C23_FindsInstanceAnywhere ==
    (psPc = "done" /\ StateRead) =>
        IF MatchingAttributes(psFile, psId) # {}
        THEN psErr = Nil /\ psResult \in MatchingAttributes(psFile, psId)
        ELSE psErr = ErrorOf("instance not found in Terraform state")

----------------------------------------------------------------------------
(* Claims about the renderings, checked under SpecFormat *)

\* C24: two calls of FormatDriftResults with equal records, the same
\* identifier and the same format return the same text, whatever order the
\* records are visited in and whenever the calls are made
C24_SameInputSameText == fmtPc = "done" => fmtOut1 = fmtOut2

\* the calls whose format names select each formatter
AsText == ToLower(fmtFormat) \notin {<<"j", "s", "o", "n">>, <<"y", "a", "m", "l">>}
AsYAML == ToLower(fmtFormat) = <<"y", "a", "m", "l">>
AsJSON == ToLower(fmtFormat) = <<"j", "s", "o", "n">>
\* the texts returned so far
Returned ==
    (IF fmtPc \in {"second", "done"} THEN {fmtOut1} ELSE {})
    \cup (IF fmtPc = "done" THEN {fmtOut2} ELSE {})

\* the lines of out that follow line i up to the next line satisfying Ends
LinesAfter(out, i, Ends(_)) ==
    LET ends == {j \in (i + 1)..Len(out) : Ends(out[j])}
        first == IF ends = {} THEN Len(out) + 1
                 ELSE CHOOSE j \in ends : \A k \in ends : j <= k
    IN  SubSeq(out, i + 1, first - 1)
\* a line of the block starts with the given words
HasLine(block, prefix) ==
    \E k \in DOMAIN block : block[k] # <<>> /\ block[k][1] = prefix
\* the line of the block that starts with the given words is exactly `line`
LineIs(block, prefix, line) ==
    \A k \in DOMAIN block : (block[k] # <<>> /\ block[k][1] = prefix) => block[k] = line

\* a block of text output (or of String) shows the case of record d
ShowsCase(block, d) ==
    /\ block # <<>>
    /\ (block[1] = <<"Status: Values differ between AWS and Terraform">>)
          <=> (d.InAWS /\ d.InTerraform)
    /\ (block[1] = <<"Status: Exists in AWS but not in Terraform">>)
          <=> (d.InAWS /\ ~d.InTerraform)
    /\ (block[1] = <<"Status: Exists in Terraform but not in AWS">>)
          <=> (~d.InAWS /\ d.InTerraform)
    /\ HasLine(block, "AWS value: ") <=> d.InAWS
    /\ HasLine(block, "Terraform value: ") <=> d.InTerraform
    /\ LineIs(block, "AWS value: ", <<"AWS value: ">> \o Sprintv(d.AWSValue))
    /\ LineIs(block, "Terraform value: ", <<"Terraform value: ">> \o Sprintv(d.TerraformValue))

IsBlank(line) == line = <<>>
IsYamlKey(line) == line # <<>> /\ line[1] = "  "
IsJsonClose(line) == line \in {<<"    }">>, <<"    },">>}

\* the text output has one block for every record, showing its case
TextShowsCases(out) ==
    \A a \in DOMAIN fmtDrifts :
        /\ \E i \in DOMAIN out : out[i] = <<"--- ">> \o a \o <<" ---">>
        /\ \A i \in DOMAIN out :
              out[i] = <<"--- ">> \o a \o <<" ---">>
                  => ShowsCase(LinesAfter(out, i, IsBlank), fmtDrifts[a])
\* the yaml output has one entry for every record, with its flags and a
\* value line for exactly the sides whose flag is set
YamlShowsCases(out) ==
    \A a \in DOMAIN fmtDrifts :
        /\ \E i \in DOMAIN out : out[i] = <<"  ">> \o a \o <<":">>
        /\ \A i \in DOMAIN out :
              out[i] = <<"  ">> \o a \o <<":">>
                  => LET block == LinesAfter(out, i, IsYamlKey)
                         d == fmtDrifts[a]
                     IN  /\ <<"    in_aws: ", Sprintt(d.InAWS)>> = block[1]
                         /\ <<"    in_terraform: ", Sprintt(d.InTerraform)>> = block[2]
                         /\ HasLine(block, "    aws_value: \"") <=> d.InAWS
                         /\ HasLine(block, "    terraform_value: \"") <=> d.InTerraform
\* the json output has one object for every record, with its flags
JsonShowsCases(out) ==
    \A a \in DOMAIN fmtDrifts :
        /\ \E i \in DOMAIN out : out[i] = <<"    \"">> \o a \o <<"\": {">>
        /\ \A i \in DOMAIN out :
              out[i] = <<"    \"">> \o a \o <<"\": {">>
                  => LET block == LinesAfter(out, i, IsJsonClose)
                         d == fmtDrifts[a]
                     IN  /\ <<"      \"InAWS\": ", Sprintt(d.InAWS), ",">> = block[2]
                         /\ <<"      \"InTerraform\": ", Sprintt(d.InTerraform), ",">> = block[3]

\* C28: every rendering of a record shows which of the three cases it is:
\* the text output and String print the status that belongs to the record's
\* flags and a value line for exactly the sides whose flag is true, and the
\* yaml and json outputs carry the flags (yaml with value lines for exactly
\* the flagged sides)
C28_RenderingsShowTheCase ==
    /\ \A out \in Returned :
          /\ AsText => TextShowsCases(out)
          /\ AsYAML => YamlShowsCases(out)
          /\ AsJSON => JsonShowsCases(out)
    /\ strPc = "done" => ShowsCase(Tail(strOut), strRec)

\* a text rendering of two records of different cases has been returned and
\* String has rendered a record found in Terraform only
C28_Witness ==
    /\ fmtPc = "done"
    /\ AsText
    /\ Cardinality(DOMAIN fmtDrifts) = 2
    /\ \E a, b \in DOMAIN fmtDrifts :
          /\ fmtDrifts[a].InAWS /\ ~fmtDrifts[a].InTerraform
          /\ fmtDrifts[b].InAWS /\ fmtDrifts[b].InTerraform
    /\ strPc = "done"
    /\ ~strRec.InAWS /\ strRec.InTerraform

----------------------------------------------------------------------------
(* Termination of the worker pool for every limit, checked under SpecPool *)

\* C29: for every identifier list and every concurrency limit, zero
\* included, the dispatch-and-collect procedure is never stuck before Run
\* ends: as long as the run is under way the dispatch loop, a worker or the
\* collector can take its next step
C29_NeverStuckForAnyLimit == Running => ENABLED PoolStep

----------------------------------------------------------------------------
(* Claims about GetEC2InstanceConfig, checked under SpecFetch and SpecFetchFair *)

\* the positions in the log of the DescribeInstances calls
Describes == {k \in DOMAIN fCalls : fCalls[k].api = "DescribeInstances"}

\* C25: every API call of a fetch is issued with the command's context, so
\* that it observes the cancellation, and no call is issued after a call
\* that found its context cancelled
C25_CancellationReachesFetchCalls ==
    /\ \A k \in DOMAIN fCalls : fCalls[k].ctx = "command"
    /\ \A j, k \in DOMAIN fCalls : ~(fCalls[j].done /\ j < k)

\* the last DescribeInstances call issued
LastDescribe == CHOOSE k \in Describes : \A j \in Describes : j <= k
\* what GetEC2InstanceConfig has done so far is what its retry loop allows:
\* no attempt follows a success, the attempts are bounded by the budget, and
\* once it has returned, its results are those of the case it ended in
FetchOutcomeRight ==
    /\ \A k \in Describes : fCalls[k].ok => k = LastDescribe
    /\ Cardinality(Describes) <= MaxElapsed + 1
    /\ fPc = "returned" =>
          /\ Describes # {}
          /\ IF ~fCalls[LastDescribe].ok
             THEN /\ fElapsed + MaxInterval > MaxElapsed
                  /\ fErr = ErrorOf("error describing instance")
                  /\ fConfig = <<>>
             ELSE IF fResp.kind \in {"no reservation", "no instance"}
             THEN /\ fErr = ErrorOf("instance not found")
                  /\ fConfig = <<>>
             ELSE /\ fErr = Nil
                  /\ fConfig # <<>>

\* C26: GetEC2InstanceConfig always eventually returns.  It attempts the
\* describe call again after a failed attempt for as long as the budget
\* lasts and never after a success; when every attempt failed and the
\* budget is used up it returns an error and no tree; when the successful
\* response has no reservation or no instance it returns a not-found error
C26_FetchEventuallyReturns == []FetchOutcomeRight /\ <>(fPc = "returned")

\* GetEC2InstanceConfig has returned the error of the last of at least two
\* failed attempts
C26_Witness ==
    /\ fPc = "returned"
    /\ Cardinality(Describes) >= 2
    /\ \A k \in Describes : ~fCalls[k].ok
    /\ fErr = ErrorOf("error describing instance")

====
